---------------------------- MODULE Spec2Model ----------------------------
(***************************************************************************)
(* A model of eye-ik: the pulse-timing calibration (src/src/pwm.rs), the   *)
(* range-checked servo (src/src/servo.rs), the planar two-link solver      *)
(* (src/src/ik.rs), the leg that drives three servos (src/src/leg.rs) and  *)
(* the control loops of the binaries.                                      *)
(*                                                                         *)
(* Numbers.  An f32 is its IEEE 754 bit fields, a record [s, e, m], and    *)
(* every f32 operation is computed bit for bit with the rounding of the    *)
(* hardware; the functions of libm are the crate's own computations.       *)
(* FixedU32<U4> values are records [i, f]: integer part and sixteenths,    *)
(* so that all 32 bits fit TLC's 32-bit signed integers.                   *)
(***************************************************************************)
EXTENDS Integers, Sequences, FiniteSets, TLC

(***************************************************************************)
(* Bounds of the model.                                                    *)
(***************************************************************************)
NTasks == 2

Tasks == 1..NTasks

(***************************************************************************)
(* Program constants.                                                      *)
(***************************************************************************)
PULSE_PERIOD_MS == 20
PULSE_FREQ_HZ == 1000 \div PULSE_PERIOD_MS
FracBits == 4
DividerShift == 17

FracOne == 2 ^ FracBits
\* FixedU32<U4>: 28 integer bits; FixedU16<U4>: 12 integer bits.
FxU32IntLimit == 2 ^ (32 - FracBits)
FxU16IntLimit == 2 ^ (16 - FracBits)
U16Limit == 2 ^ 16

VARIABLES
    clk_hz,           \* embassy_rp::clocks::clk_sys_freq(): the hardware clock
    overflow_checks,  \* the build profile: TRUE panics on overflow, FALSE wraps
    locks,            \* the eight OnceLock statics: <<>> unset, <<v>> set
    runs,             \* how often each lock's initializer body was started
    wrapped,          \* an arithmetic result wrapped around (no trap)
    halted,           \* a panic stopped the program
    task,             \* per task: position, diagnostic message, last return
    slice,            \* the PWM slice configurations made: per task, or by a main in order
    servo_written,    \* set_duty_cycle was called on some channel
    servo,            \* a Servo under test: <<>> before construction, <<s>> after
    servo_last,       \* the last Servo operation: its arguments and outcome
    ik_leg,           \* an ik::Leg: the two link lengths
    ik_last,          \* an inverse_kinematics call: its argument and, once returned, its result
    leg,              \* the leg::Leg that a main holds: <<>> when it holds none
    leg_last,         \* a call of leg.rs: its arguments and, once returned, its result
    driver            \* a binary's main: its position and its tick counter

pwmVars == <<clk_hz, overflow_checks, locks, runs, wrapped, halted, task,
             slice, servo_written>>
servoVars == <<servo, servo_last>>
ikVars == <<ik_leg, ik_last>>
legVars == <<leg, leg_last>>
loopVars == <<driver>>

vars == <<pwmVars, servoVars, ikVars, legVars, loopVars>>

\* no main is running: the library is driven operation by operation
\* cal holds a main's pulse center and range once computed, duty the duty
\* cycles it last set
NoDriver == [bin |-> "none", pc |-> "none", counter |-> 0, out |-> "", attempts |-> 0,
             cal |-> <<>>, duty |-> <<>>]

----------------------------------------------------------------------------
(***************************************************************************)
(* FixedU32<U4> arithmetic (the `fixed` crate), on records [i, f].         *)
(***************************************************************************)
Fx(i, f) == [i |-> i, f |-> f]

FxFromBits(b) == Fx(b \div FracOne, b % FracOne)

\* The raw bits of a value known to be small.
FxBits(v) == v.i * FracOne + v.f

\* FixedU32::<U4>::checked_from_num(n: u32): None when n needs more than 28 bits.
FxCheckedFromU32(n) == IF n < FxU32IntLimit THEN <<Fx(n, 0)>> ELSE <<>>

\* FixedU32::<U4>::checked_from_num(v: FixedU32<U4>): the identity, never None.
FxCheckedFromFx(v) == IF v.i < FxU32IntLimit THEN <<v>> ELSE <<>>

\* a / b: floor(bits(a) * 2^4 / bits(b)), by long division in base 2^4
\* (bits(b) < 2^27, so that no step leaves TLC's integers).
FxDiv(a, b) ==
    LET d  == FxBits(b)
        q1 == a.i \div d
        n2 == (a.i % d) * FracOne + a.f
        q2 == n2 \div d
        n3 == (n2 % d) * FracOne
        q3 == n3 \div d
    IN  FxFromBits((q1 * FracOne + q2) * FracOne + q3)

\* An arithmetic result together with whether it left the 32 bits: the value
\* is the result modulo 2^32.
Arith(bits) ==
    IF bits < 0
    THEN [v |-> Fx(FxU32IntLimit - 1 - ((-bits - 1) \div FracOne),
                   FracOne - 1 - ((-bits - 1) % FracOne)),
          ovf |-> TRUE]
    ELSE IF bits \div FracOne >= FxU32IntLimit
         THEN [v |-> Fx((bits \div FracOne) % FxU32IntLimit, bits % FracOne),
               ovf |-> TRUE]
         ELSE [v |-> FxFromBits(bits), ovf |-> FALSE]

\* v + FixedU32::from_bits(1)
FxAddBit(v) == Arith(FxBits(v) + 1)

\* n * v for n: u32 (impl Mul<FixedU32<U4>> for u32)
U32MulFx(n, v) == Arith(n * FxBits(v))

\* A slip of FxShl1: the shift is left out.
FxShl1_None(v) == Arith(FxBits(v))

\* v << 1: the top bit is shifted out silently in every build
FxShl1(v) == Arith(2 * FxBits(v))

\* A slip of FxSubOne: the subtrahend is two.
FxSubOne_Two(v) == Arith(FxBits(v) - 2 * FracOne)

\* v - FixedU32::ONE
FxSubOne(v) == Arith(FxBits(v) - FracOne)

\* v.floor()
FxFloor(v) == Fx(v.i, 0)

\* v.checked_to_num::<u16>()
FxCheckedToU16(v) == IF v.i < U16Limit THEN <<v.i>> ELSE <<>>

\* FixedU16::<U4>::lossless_try_from(v)
FxU16LosslessTryFrom(v) == IF v.i < FxU16IntLimit THEN <<v>> ELSE <<>>

----------------------------------------------------------------------------
(***************************************************************************)
(* f32: IEEE 754 binary32, the type of every position, angle, length and   *)
(* pulse width in src/servo.rs, src/ik.rs, src/leg.rs and src/pwm.rs.      *)
(* A value is its three bit fields: sign s, biased exponent e (8 bits) and *)
(* fraction m (23 bits).  Every operation rounds to nearest, ties to even, *)
(* as the hardware and the soft-float runtime do.  An operand that is used *)
(* more than once is bound to a variable first, so that it is computed     *)
(* once.                                                                   *)
(***************************************************************************)
Only(S) == CHOOSE x \in S : TRUE

Pow2 == [i \in 0..30 |-> 2^i]

HiddenBit == 2^23

BitLen(n) == Cardinality({i \in 0..30 : Pow2[i] <= n})

F32Bits(s, e, m) == [s |-> s, e |-> e, m |-> m]

F32NaN == F32Bits(0, 255, 4194304)

IsNaN(a) == a.e = 255 /\ a.m # 0

IsInf(a) == a.e = 255 /\ a.m = 0

IsZero(a) == a.e = 0 /\ a.m = 0

\* the value of a finite a is (-1)^a.s * Sig(a) * 2^Exp2(a)
Sig(a) == IF a.e = 0 THEN a.m ELSE HiddenBit + a.m

Exp2(a) == IF a.e = 0 THEN -149 ELSE a.e - 150

\* Sig and Exp2 with the leading bit moved to bit 23 (subnormals scaled up)
Normal(a) == Only({[sig |-> Sig(a) * Pow2[24 - n], x |-> Exp2(a) - (24 - n)] : n \in {BitLen(Sig(a))}})

\* sig * 2^x with sig <= 2^24 and x >= -149, as bit fields
F32Pack(s, sig, x) ==
    IF sig = 2 * HiddenBit THEN (IF x + 151 >= 255 THEN F32Bits(s, 255, 0) ELSE F32Bits(s, x + 151, 0))
    ELSE IF sig < HiddenBit THEN F32Bits(s, 0, sig)
    ELSE IF x + 150 >= 255 THEN F32Bits(s, 255, 0)
    ELSE F32Bits(s, x + 150, sig - HiddenBit)

\* sig with its k lowest bits rounded away, to nearest and ties to even
RoundShift(sig, k) ==
    IF k <= 0 THEN sig * Pow2[-k]
    ELSE IF k > 30 THEN (IF k = 31 /\ sig > Pow2[30] THEN 1 ELSE 0)
    ELSE (sig \div Pow2[k]) + (IF (sig % Pow2[k]) > Pow2[k - 1] \/ ((sig % Pow2[k]) = Pow2[k - 1] /\ (sig \div Pow2[k]) % 2 = 1) THEN 1 ELSE 0)

F32RoundV(s, sig, k, x) == F32Pack(s, RoundShift(sig, k), x + k)

\* (-1)^s * sig * 2^x rounded to f32; 0 <= sig < 2^31, its lowest bit set
\* when bits below it were dropped
F32Round(s, sig, x) == Only({F32RoundV(s, g, IF BitLen(g) - 24 >= -149 - x THEN BitLen(g) - 24 ELSE -149 - x, x) : g \in {sig}})

\* sig shifted right by d places, its lowest bit set when a one was dropped
ShiftRightJam(sig, d) == IF d = 0 THEN sig ELSE IF d > 30 THEN 1 ELSE IF (sig % Pow2[d]) # 0 /\ (sig \div Pow2[d]) % 2 = 0 THEN (sig \div Pow2[d]) + 1 ELSE sig \div Pow2[d]

F32Neg(a) == Only({IF IsNaN(u) THEN u ELSE F32Bits(1 - u.s, u.e, u.m) : u \in {a}})

F32Abs(a) == Only({IF IsNaN(u) THEN u ELSE F32Bits(0, u.e, u.m) : u \in {a}})

SignedSig(a) == IF a.s = 1 THEN -(8 * Sig(a)) ELSE 8 * Sig(a)

SignedJam(a, d) == IF a.s = 1 THEN -ShiftRightJam(8 * Sig(a), d) ELSE ShiftRightJam(8 * Sig(a), d)

F32AddSum(sum, x) == Only({F32Round(IF t < 0 THEN 1 ELSE 0, IF t < 0 THEN -t ELSE t, x) : t \in {sum}})

\* both finite and not zero, big the one of the larger exponent; three
\* more bits are kept below the smaller one's place
F32AddN(big, small) == F32AddSum(SignedSig(big) + SignedJam(small, Exp2(big) - Exp2(small)), Exp2(big) - 3)

F32AddV(u, v) ==
    IF IsNaN(u) \/ IsNaN(v) \/ (IsInf(u) /\ IsInf(v) /\ u.s # v.s) THEN F32NaN
    ELSE IF IsInf(u) \/ (IsZero(v) /\ ~IsZero(u)) THEN u
    ELSE IF IsInf(v) \/ (IsZero(u) /\ ~IsZero(v)) THEN v
    ELSE IF IsZero(u) THEN F32Bits(IF u.s = 1 /\ v.s = 1 THEN 1 ELSE 0, 0, 0)
    ELSE Only({F32AddN(p[1], p[2]) : p \in {IF Exp2(u) >= Exp2(v) THEN <<u, v>> ELSE <<v, u>>}})

\* a + b
F32Add(a, b) == Only({F32AddV(u, v) : u \in {a}, v \in {b}})

\* a - b
F32Sub(a, b) == F32Add(a, F32Neg(b))

\* the 48-bit product top * 2^24 + c1 * 2^12 + c0, cut to 27 bits
F32MulTop(s, top, c1, c0, x) == F32Round(s, (2 * ((top * 4) + (c1 \div 1024))) + (IF (c1 % 1024) # 0 \/ c0 # 0 THEN 1 ELSE 0), x + 21)

F32MulCarry(s, high, mid, low, x) == Only({F32MulTop(s, (c \div 4096) + high, c % 4096, low % 4096, x) : c \in {(low \div 4096) + mid}})

\* the significands in two halves of 12 bits
F32MulN(s, p, q) == F32MulCarry(s, (p.sig \div 4096) * (q.sig \div 4096), ((p.sig \div 4096) * (q.sig % 4096)) + ((p.sig % 4096) * (q.sig \div 4096)), (p.sig % 4096) * (q.sig % 4096), p.x + q.x)

F32MulV(u, v, s) ==
    IF IsNaN(u) \/ IsNaN(v) \/ (IsInf(u) /\ IsZero(v)) \/ (IsZero(u) /\ IsInf(v)) THEN F32NaN
    ELSE IF IsInf(u) \/ IsInf(v) THEN F32Bits(s, 255, 0)
    ELSE IF IsZero(u) \/ IsZero(v) THEN F32Bits(s, 0, 0)
    ELSE Only({F32MulN(s, p, q) : p \in {Normal(u)}, q \in {Normal(v)}})

\* a * b
F32Mul(a, b) == Only({F32MulV(u, v, IF u.s = v.s THEN 0 ELSE 1) : u \in {a}, v \in {b}})

DivStep(st, d, n) == Only({[q |-> (t.q * Pow2[n]) + ((t.r * Pow2[n]) \div d), r |-> (t.r * Pow2[n]) % d] : t \in {st}})

\* 26 quotient bits of sig / d and whether a remainder is left
F32DivN(s, sig, d, x) == Only({F32Round(s, (2 * st.q) + (IF st.r # 0 THEN 1 ELSE 0), x - 26) : st \in {DivStep(DivStep(DivStep(DivStep([q |-> sig \div d, r |-> sig % d], d, 7), d, 7), d, 7), d, 4)}})

F32DivV(u, v, s) ==
    IF IsNaN(u) \/ IsNaN(v) \/ (IsInf(u) /\ IsInf(v)) \/ (IsZero(u) /\ IsZero(v)) THEN F32NaN
    ELSE IF IsInf(u) \/ IsZero(v) THEN F32Bits(s, 255, 0)
    ELSE IF IsInf(v) \/ IsZero(u) THEN F32Bits(s, 0, 0)
    ELSE Only({F32DivN(s, p.sig, q.sig, p.x - q.x) : p \in {Normal(u)}, q \in {Normal(v)}})

\* a / b
F32Div(a, b) == Only({F32DivV(u, v, IF u.s = v.s THEN 0 ELSE 1) : u \in {a}, v \in {b}})

\* the order of the values: -0.0 = 0.0, and a NaN compares false with everything
F32Key(a) == IF a.s = 1 THEN -((a.e * HiddenBit) + a.m) ELSE (a.e * HiddenBit) + a.m

\* a <= b
F32Le(a, b) == Only({~IsNaN(u) /\ ~IsNaN(v) /\ F32Key(u) <= F32Key(v) : u \in {a}, v \in {b}})

\* a < b
F32Lt(a, b) == Only({~IsNaN(u) /\ ~IsNaN(v) /\ F32Key(u) < F32Key(v) : u \in {a}, v \in {b}})

\* an integer of magnitude below 2^31 converted (`as f32`)
F32OfInt(n) == Only({F32Round(IF k < 0 THEN 1 ELSE 0, IF k < 0 THEN -k ELSE k, 0) : k \in {n}})

\* the f32 nearest to n / d: what a decimal literal or a measured value is
F32Of(n, d) == F32Div(F32OfInt(n), F32OfInt(d))

SqrtPair(sig, j) == IF j >= 14 THEN (sig \div Pow2[2 * (j - 14)]) % 4 ELSE 0

SqrtBitV(r, root) == IF r > root THEN [r |-> r - (root + 1), root |-> (root \div 2) + 1] ELSE [r |-> r, root |-> root \div 2]

\* one bit of the root from two bits of sig: the restoring square root
SqrtBit(st, sig, j) == Only({SqrtBitV((4 * t.r) + SqrtPair(sig, j), 4 * t.root) : t \in {st}})

Sqrt3(st, sig, j) == SqrtBit(SqrtBit(SqrtBit(st, sig, j), sig, j - 1), sig, j - 2)

Sqrt9(st, sig, j) == Sqrt3(Sqrt3(Sqrt3(st, sig, j), sig, j - 3), sig, j - 6)

\* the integer square root of sig * 2^28 and its remainder, two bits a step
SqrtRoot(sig) == Sqrt9(Sqrt9(Sqrt9([r |-> 0, root |-> 0], sig, 26), sig, 17), sig, 8)

F32SqrtN(sig, x) == Only({F32Round(0, (2 * st.root) + (IF st.r # 0 THEN 1 ELSE 0), (x \div 2) - 15) : st \in {SqrtRoot(sig)}})

F32SqrtV(u) ==
    IF IsNaN(u) \/ (u.s = 1 /\ ~IsZero(u)) THEN F32NaN
    ELSE IF IsZero(u) \/ IsInf(u) THEN u
    ELSE Only({F32SqrtN(IF p.x % 2 = 0 THEN p.sig ELSE 2 * p.sig, IF p.x % 2 = 0 THEN p.x ELSE p.x - 1) : p \in {Normal(u)}})

\* libm::sqrtf: the correctly rounded square root
sqrtf(a) == Only({F32SqrtV(u) : u \in {a}})

----------------------------------------------------------------------------
(***************************************************************************)
(* libm (the crate the code calls for sqrtf, acosf, atan2f, sinf, cosf),   *)
(* a port of the musl C library: each function is the f32 computation the  *)
(* crate performs, operation by operation, with its constants given by     *)
(* their bits.  A threshold on |x| is a threshold on the bits of |x|.      *)
(***************************************************************************)
AbsBits(a) == (a.e * HiddenBit) + a.m

F32Signed(s, a) == Only({IF s = 1 THEN F32Neg(u) ELSE u : u \in {a}})

One == F32Bits(0, 127, 0)

Two == F32Bits(0, 128, 0)

Half == F32Bits(0, 126, 0)

OneAndHalf == F32Bits(0, 127, 4194304)

\* core::f32::consts::PI = 0x40490fdb
PI == F32Bits(0, 128, 4788187)

\* 0x3fc90fda and 0x33a22168: pi/2 in two parts
PIO2_HI == F32Bits(0, 127, 4788186)

PIO2_LO == F32Bits(0, 103, 2236776)

\* 1.6666586697e-01, -4.2743422091e-02, -8.6563630030e-03, -7.0662963390e-01
P_S0 == F32Bits(0, 124, 2796149)

P_S1 == F32Bits(1, 122, 3085242)

P_S2 == F32Bits(1, 120, 906091)

Q_S1 == F32Bits(1, 126, 3466670)

\* 2^-120, added to raise the inexact flag
X1P_120 == F32Bits(0, 7, 0)

acosf_r(z) == Only({F32Div(F32Mul(u, F32Add(P_S0, F32Mul(u, F32Add(P_S1, F32Mul(u, P_S2))))), F32Add(One, F32Mul(u, Q_S1))) : u \in {z}})

\* |x| < 0.5: z = x * x; otherwise z = (1 + x) * 0.5 or (1 - x) * 0.5
acosf_z(u) == IF AbsBits(u) < 1056964608 THEN F32Mul(u, u) ELSE F32Mul(F32Add(One, IF u.s = 1 THEN u ELSE F32Neg(u)), Half)

\* |x| < 0.5
acosf_small(u, r) == F32Sub(PIO2_HI, F32Sub(u, F32Sub(PIO2_LO, F32Mul(u, r))))

\* x < -0.5
acosf_low(s, r) == F32Mul(Two, F32Sub(PIO2_HI, F32Add(s, F32Sub(F32Mul(r, s), PIO2_LO))))

\* x > 0.5; df is s with its low 12 bits cleared
acosf_high(z, s, r, df) == F32Mul(Two, F32Add(df, F32Add(F32Mul(r, s), F32Div(F32Sub(z, F32Mul(df, df)), F32Add(s, df)))))

acosf_reduced(u, z) == Only({IF AbsBits(u) < 1056964608 THEN acosf_small(u, r) ELSE IF u.s = 1 THEN acosf_low(s, r) ELSE acosf_high(z, s, r, F32Bits(s.s, s.e, s.m - (s.m % 4096))) : r \in {acosf_r(z)}, s \in {sqrtf(z)}})

acosfV(u) ==
    IF IsNaN(u) \/ AbsBits(u) > 1065353216 THEN F32NaN
    ELSE IF AbsBits(u) = 1065353216 THEN (IF u.s = 1 THEN F32Add(F32Mul(Two, PIO2_HI), X1P_120) ELSE F32Bits(0, 0, 0))
    ELSE IF AbsBits(u) <= 847249408 THEN F32Add(PIO2_HI, X1P_120)
    ELSE Only({acosf_reduced(u, z) : z \in {acosf_z(u)}})

\* libm::acosf: NaN outside [-1, 1]
acosf(x) == Only({acosfV(u) : u \in {x}})

\* atan(0.5), atan(1), atan(1.5), atan(inf), each in two parts
ATAN_HI == <<F32Bits(0, 125, 7168824), F32Bits(0, 126, 4788186), F32Bits(0, 126, 8099934), F32Bits(0, 127, 4788186)>>

ATAN_LO == <<F32Bits(0, 99, 2897769), F32Bits(0, 102, 2236776), F32Bits(0, 102, 1314740), F32Bits(0, 103, 2236776)>>

\* 3.3333328366e-01, -1.9999158382e-01, 1.4253635705e-01, -1.0648017377e-01, 6.1687607318e-02
A_T == <<F32Bits(0, 125, 2796201), F32Bits(1, 124, 5032600), F32Bits(0, 124, 1176845), F32Bits(1, 123, 5902919), F32Bits(0, 122, 8170533)>>

\* -1: |x| < 7/16; 0: < 11/16; 1: < 19/16; 2: < 39/16; 3: above
atanf_id(u) == IF AbsBits(u) < 1054867456 THEN -1 ELSE IF AbsBits(u) < 1060110336 THEN 0 ELSE IF AbsBits(u) < 1066926080 THEN 1 ELSE IF AbsBits(u) < 1075576832 THEN 2 ELSE 3

\* the argument reduction, on v = |x| unless id < 0
atanf_reduce(v, id) ==
    IF id < 0 THEN v
    ELSE IF id = 0 THEN F32Div(F32Sub(F32Mul(Two, v), One), F32Add(Two, v))
    ELSE IF id = 1 THEN F32Div(F32Sub(v, One), F32Add(v, One))
    ELSE IF id = 2 THEN F32Div(F32Sub(v, OneAndHalf), F32Add(One, F32Mul(OneAndHalf, v)))
    ELSE F32Div(F32Neg(One), v)

atanf_s1(z, w) == F32Mul(z, F32Add(A_T[1], F32Mul(w, F32Add(A_T[3], F32Mul(w, A_T[5])))))

atanf_s2(w) == F32Mul(w, F32Add(A_T[2], F32Mul(w, A_T[4])))

atanf_sum(x, z, w) == F32Mul(x, F32Add(atanf_s1(z, w), atanf_s2(w)))

atanf_tail(x, t, id) == IF id < 0 THEN F32Sub(x, t) ELSE F32Sub(ATAN_HI[id + 1], F32Sub(F32Sub(t, ATAN_LO[id + 1]), x))

atanf_poly(x, z, id) == Only({atanf_tail(x, t, id) : t \in {atanf_sum(x, z, F32Mul(z, z))}})

atanf_reduced(u, x, id) == Only({IF id < 0 THEN y ELSE F32Signed(u.s, y) : y \in {atanf_poly(x, F32Mul(x, x), id)}})

atanfV(u) ==
    IF IsNaN(u) \/ (AbsBits(u) < 964689920) THEN u
    ELSE IF AbsBits(u) >= 1283457024 THEN F32Signed(u.s, F32Add(ATAN_HI[4], X1P_120))
    ELSE Only({atanf_reduced(u, x, atanf_id(u)) : x \in {atanf_reduce(IF atanf_id(u) < 0 THEN u ELSE F32Bits(0, u.e, u.m), atanf_id(u))}})

\* libm::atanf
atanf(x) == Only({atanfV(u) : u \in {x}})

\* 0xb3bbbd2e: pi - PI
PI_LO == F32Bits(1, 103, 3915054)

FRAC_PI_2 == F32Bits(0, 127, 4788187)

FRAC_PI_4 == F32Bits(0, 126, 4788187)

\* 2 * sign(x) + sign(y) = 0: z; 1: -z; 2: pi - (z - pi_lo); 3: (z - pi_lo) - pi
atan2f_quadrant(y, x, z) == IF x.s = 0 THEN F32Signed(y.s, z) ELSE Only({IF y.s = 0 THEN F32Sub(PI, t) ELSE F32Sub(t, PI) : t \in {F32Sub(z, PI_LO)}})

\* x = 1.0: atanf(y); otherwise z = atanf(|y / x|), or 0 when |y / x| < 2^-26 and x < 0
atan2f_z(y, x) == Only({IF x = One THEN z ELSE atan2f_quadrant(y, x, IF x.s = 1 /\ AbsBits(x) - AbsBits(y) > 218103808 THEN F32Bits(0, 0, 0) ELSE z) : z \in {atanf(IF x = One THEN y ELSE F32Abs(F32Div(y, x)))}})

\* the cases decided without atanf: y = 0, x = 0, x infinite, |y / x| > 2^26
atan2f_special(y, x) ==
    IF IsZero(y) THEN <<IF x.s = 0 THEN y ELSE F32Signed(y.s, PI)>>
    ELSE IF IsZero(x) THEN <<F32Signed(y.s, FRAC_PI_2)>>
    ELSE IF IsInf(x) THEN <<IF IsInf(y) THEN F32Signed(y.s, IF x.s = 0 THEN FRAC_PI_4 ELSE F32Mul(F32Bits(0, 128, 4194304), FRAC_PI_4)) ELSE IF x.s = 0 THEN F32Bits(y.s, 0, 0) ELSE F32Signed(y.s, PI)>>
    ELSE IF IsInf(y) \/ AbsBits(y) - AbsBits(x) > 218103808 THEN <<F32Signed(y.s, FRAC_PI_2)>>
    ELSE <<>>

atan2fV(y, x) == IF IsNaN(x) \/ IsNaN(y) THEN F32NaN ELSE IF x # One /\ atan2f_special(y, x) # <<>> THEN atan2f_special(y, x)[1] ELSE atan2f_z(y, x)

\* libm::atan2f: the angle of (x, y), in [-pi, pi]
atan2f(y, x) == Only({atan2fV(u, v) : u \in {y}, v \in {x}})

(***************************************************************************)
(* sinf and cosf compute in f64 and round the result to f32 once.  The f64 *)
(* intermediates are carried here as signed fixed-point numbers with 56    *)
(* fraction bits, five limbs of 14 bits, least significant first: at least *)
(* the precision of an f64 of magnitude one or more.  The arguments        *)
(* covered are those of magnitude below 2^13.                              *)
(***************************************************************************)
Limb == 2^14

Wide(neg, l) == [neg |-> neg, l |-> l]

MagLt(a, b) == \E i \in 1..5 : a[i] < b[i] /\ \A j \in (i + 1)..5 : a[j] = b[j]

CarryV(t, sum) == [c |-> sum \div Limb, l |-> Append(t.l, sum % Limb)]

\* a + b, or for sign = -1 and a >= b, a - b, limb by limb with the carry
AddStep(st, a, b, sign, i) == Only({CarryV(t, a[i] + (sign * b[i]) + t.c) : t \in {st}})

MagAdd(a, b, sign) == AddStep(AddStep(AddStep(AddStep(AddStep([c |-> 0, l |-> <<>>], a, b, sign, 1), a, b, sign, 2), a, b, sign, 3), a, b, sign, 4), a, b, sign, 5).l

WideAddV(u, v) == IF u.neg = v.neg THEN Wide(u.neg, MagAdd(u.l, v.l, 1)) ELSE Only({Wide(p[1].neg, MagAdd(p[1].l, p[2].l, -1)) : p \in {IF MagLt(u.l, v.l) THEN <<v, u>> ELSE <<u, v>>}})

WideAdd(p, q) == Only({WideAddV(u, v) : u \in {p}, v \in {q}})

WideNeg(p) == Only({Wide(~u.neg, u.l) : u \in {p}})

\* the products of limbs whose places add up to k
MulAt(a, b, i, j) == IF 1 <= j /\ j <= 5 THEN a[i] * b[j] ELSE 0

MulColumn(a, b, k) == MulAt(a, b, 1, k - 1) + MulAt(a, b, 2, k - 2) + MulAt(a, b, 3, k - 3) + MulAt(a, b, 4, k - 4) + MulAt(a, b, 5, k - 5)

MulStep(st, a, b, k) == Only({CarryV(t, MulColumn(a, b, k) + t.c) : t \in {st}})

Mul3(st, a, b, k) == MulStep(MulStep(MulStep(st, a, b, k), a, b, k + 1), a, b, k + 2)

\* the product with its 56 lowest bits dropped
MagMul(a, b) == SubSeq(Mul3(Mul3(Mul3([c |-> 0, l |-> <<>>], a, b, 2), a, b, 5), a, b, 8).l, 5, 9)

WideMul(p, q) == Only({Wide(u.neg # v.neg, MagMul(u.l, v.l)) : u \in {p}, v \in {q}})

\* the integer nearest to p
WideNearest(p) == Only({(IF u.neg THEN -1 ELSE 1) * (u.l[5] + (IF 2 * u.l[4] >= Limb THEN 1 ELSE 0)) : u \in {p}})

\* an integer of magnitude below 2^14 as a Wide
WideOfInt(n) == Only({Wide(k < 0, <<0, 0, 0, 0, IF k < 0 THEN -k ELSE k>>) : k \in {n}})

LimbAt(sig, d) == IF d >= 14 THEN 0 ELSE IF d >= 0 THEN (sig % Pow2[14 - d]) * Pow2[d] ELSE IF d < -30 THEN 0 ELSE (sig \div Pow2[-d]) % Limb

\* `x as f64`, exact for 2^-12 <= |x| < 2^13
WideOfF32(a) == Only({Wide(u.s = 1, [k \in 1..5 |-> LimbAt(Sig(u), (Exp2(u) + 56) - (14 * (k - 1)))]) : u \in {v \in {a} : AbsBits(v) < 1174405120}})

TopLimb(l) == Cardinality({i \in 1..5 : \E j \in i..5 : l[j] # 0})

LimbOrZero(l, i) == IF i >= 1 THEN l[i] ELSE 0

\* the 29 or 30 highest bits from limb t down, the lowest set when a one is dropped
WideTopBits(l, t, extra) == Only({IF ((LimbOrZero(l, t - 2) % Pow2[14 - extra]) # 0 \/ (\E j \in 1..(t - 3) : l[j] # 0)) /\ q % 2 = 0 THEN q + 1 ELSE q : q \in {(((l[t] * Limb) + LimbOrZero(l, t - 1)) * Pow2[extra]) + (LimbOrZero(l, t - 2) \div Pow2[14 - extra])}})

WideToF32V(u, t) == IF t = 0 THEN F32Bits(0, 0, 0) ELSE Only({F32Round(IF u.neg THEN 1 ELSE 0, WideTopBits(u.l, t, extra), ((14 * (t - 2)) - extra) - 56) : extra \in {IF u.l[t] = 1 THEN 14 ELSE 16 - BitLen(u.l[t])}})

\* `as f32`: the one rounding of the result
WideToF32(p) == Only({WideToF32V(u, TopLimb(u.l)) : u \in {p}})

\* -0.166666666416265235595, 0.0083333293858894631756,
\* -0.000198393348360966317347, 0.0000027183114939898219064
SIN_S1 == Wide(TRUE, <<6382, 9821, 10922, 2730, 0>>)

SIN_S2 == Wide(FALSE, <<8054, 1207, 8737, 136, 0>>)

SIN_S3 == Wide(TRUE, <<9587, 13253, 4103, 3, 0>>)

SIN_S4 == Wide(FALSE, <<6262, 11324, 729, 0, 0>>)

\* -0.499999997251031003120, 0.0416666233237390631894,
\* -0.00138867637746099294692, 0.0000243904487962774090654
COS_C0 == Wide(TRUE, <<14852, 4293, 16383, 8191, 0>>)

COS_C1 == Wide(FALSE, <<7457, 522, 10911, 682, 0>>)

COS_C2 == Wide(TRUE, <<15480, 16000, 12321, 22, 0>>)

COS_C3 == Wide(FALSE, <<3813, 4280, 6547, 0, 0>>)

WideOne == Wide(FALSE, <<0, 0, 0, 0, 1>>)

\* pi/2 as an f64 times 1, 2, 3, 4, each rounded to an f64
SK_PIO2 == <<Wide(FALSE, <<4480, 4363, 15188, 9351, 1>>), Wide(FALSE, <<8960, 8726, 13992, 2319, 3>>), Wide(FALSE, <<13440, 13089, 12796, 11671, 4>>), Wide(FALSE, <<1536, 1069, 11601, 4639, 6>>)>>

\* 6.36619772367581382433e-01, 1.57079631090164184570e+00, 1.58932547735281966916e-08
INV_PIO2 == Wide(FALSE, <<1048, 14649, 6198, 10430, 0>>)

PIO2_1 == Wide(FALSE, <<0, 0, 15184, 9351, 1>>)

PIO2_1T == Wide(FALSE, <<4484, 4363, 4, 0, 0>>)

k_sinf_sum(x, z, w, s) == WideAdd(WideAdd(x, WideMul(s, WideAdd(SIN_S1, WideMul(z, SIN_S2)))), WideMul(WideMul(s, w), WideAdd(SIN_S3, WideMul(z, SIN_S4))))

\* libm k_sinf: sin on [-pi/4, pi/4], before the rounding
k_sinf(x, z) == Only({k_sinf_sum(x, z, w, s) : w \in {WideMul(z, z)}, s \in {WideMul(z, x)}})

k_cosf_sum(z, w) == WideAdd(WideAdd(WideAdd(WideOne, WideMul(z, COS_C0)), WideMul(w, COS_C1)), WideMul(WideMul(w, z), WideAdd(COS_C2, WideMul(z, COS_C3))))

\* libm k_cosf: cos on [-pi/4, pi/4], before the rounding
k_cosf(z) == Only({k_cosf_sum(z, w) : w \in {WideMul(z, z)}})

\* a reduced argument: the kernel to use on y and whether to negate its result
Reduced(cos, y, neg) == [cos |-> cos, y |-> y, neg |-> neg]

kernel_z(red, z) == F32Signed(IF red.neg THEN 1 ELSE 0, WideToF32(IF red.cos THEN k_cosf(z) ELSE k_sinf(red.y, z)))

kernel(reduced) == Only({kernel_z(red, WideMul(red.y, red.y)) : red \in {reduced}})

\* -1: |x| <= pi/4; 1: <= 3pi/4; 2: <= 5pi/4; 3: <= 7pi/4; 4: <= 9pi/4; 0: above
trig_k(u) == IF AbsBits(u) <= 1061752794 THEN -1 ELSE IF AbsBits(u) <= 1075235811 THEN 1 ELSE IF AbsBits(u) <= 1081824209 THEN 2 ELSE IF AbsBits(u) <= 1085271519 THEN 3 ELSE IF AbsBits(u) <= 1088565717 THEN 4 ELSE 0

\* x - k * pi/2, or x + k * pi/2 for a negative x
trig_shift(u, x, k) == WideAdd(x, IF u.s = 1 THEN SK_PIO2[k] ELSE WideNeg(SK_PIO2[k]))

\* libm rem_pio2f: x = n * pi/2 + y
rem_pio2f_y(x, n, f_n) == [n |-> n, y |-> WideAdd(WideAdd(x, WideNeg(WideMul(PIO2_1, f_n))), WideNeg(WideMul(PIO2_1T, f_n)))]

rem_pio2f(x) == Only({rem_pio2f_y(x, n, WideOfInt(n)) : n \in {WideNearest(WideMul(x, INV_PIO2))}})

trig_y(u, x, k) == IF k < 0 THEN [n |-> 0, y |-> x] ELSE IF k = 0 THEN rem_pio2f(x) ELSE [n |-> k, y |-> trig_shift(u, x, k)]

sinf_reduced(u, k, q) ==
    IF k < 0 THEN Reduced(FALSE, q.y, FALSE)
    ELSE IF k = 1 THEN Reduced(TRUE, q.y, u.s = 1)
    ELSE IF k = 2 THEN Reduced(FALSE, WideNeg(q.y), FALSE)
    ELSE IF k = 3 THEN Reduced(TRUE, q.y, u.s = 0)
    ELSE IF k = 4 THEN Reduced(FALSE, q.y, FALSE)
    ELSE Reduced(q.n % 2 = 1, IF q.n % 4 = 2 THEN WideNeg(q.y) ELSE q.y, q.n % 4 = 3)

sinf_wide(u, x) == Only({kernel(sinf_reduced(u, trig_k(u), q)) : q \in {trig_y(u, x, trig_k(u))}})

sinfV(u) == IF IsNaN(u) \/ IsInf(u) THEN F32NaN ELSE IF AbsBits(u) < 964689920 THEN u ELSE Only({sinf_wide(u, x) : x \in {WideOfF32(u)}})

\* libm::sinf
sinf(a) == Only({sinfV(u) : u \in {a}})

cosf_reduced(u, k, q) ==
    IF k < 0 THEN Reduced(TRUE, q.y, FALSE)
    ELSE IF k = 1 THEN Reduced(FALSE, IF u.s = 1 THEN q.y ELSE WideNeg(q.y), FALSE)
    ELSE IF k = 2 THEN Reduced(TRUE, q.y, TRUE)
    ELSE IF k = 3 THEN Reduced(FALSE, IF u.s = 1 THEN WideNeg(q.y) ELSE q.y, FALSE)
    ELSE IF k = 4 THEN Reduced(TRUE, q.y, FALSE)
    ELSE Reduced(q.n % 2 = 0, IF q.n % 4 = 1 THEN WideNeg(q.y) ELSE q.y, q.n % 4 = 2)

cosf_wide(u, x) == Only({kernel(cosf_reduced(u, trig_k(u), q)) : q \in {trig_y(u, x, trig_k(u))}})

cosfV(u) == IF IsNaN(u) \/ IsInf(u) THEN F32NaN ELSE IF AbsBits(u) < 964689920 THEN One ELSE Only({cosf_wide(u, x) : x \in {WideOfF32(u)}})

\* libm::cosf
cosf(a) == Only({cosfV(u) : u \in {a}})
----------------------------------------------------------------------------
(***************************************************************************)
(* The calibration accessors.  Each takes the world w = [locks, runs,      *)
(* wrapped] and returns [w, out, val, msg]: out is "ok" (val returned),    *)
(* "diag" (the caller sits in a diagnostic loop printing msg and val       *)
(* forever) or "panic".  The executor is cooperative: a task is suspended  *)
(* only where an await is pending, and in these accessors that is the      *)
(* ticker of a diagnostic loop, so a call runs as one step up to there.    *)
(***************************************************************************)
LockNames == {"clock_frequency", "clock_frequency_fp", "clock_divider_32b",
              "clock_top", "clock_divider", "pulse_min", "pulse_max",
              "pulse_center", "pulse_range_plus_minus"}

Ret(w, v) == [w |-> w, out |-> "ok", val |-> <<v>>, msg |-> ""]
Diag(w, m, v) == [w |-> w, out |-> "diag", val |-> <<v>>, msg |-> m]
Panic(w, m) == [w |-> w, out |-> "panic", val |-> <<>>, msg |-> m]

\* A wrapped result: a panic with overflow checks, a silent wrap without.
Wrapped(w) == [w EXCEPT !.wrapped = TRUE]

\* the initializer body of a lock is entered: f().await starts
Entered(lock, w) == [w EXCEPT !.runs[lock] = @ + 1]

\* lock.init(f().await), then lock.try_get().unwrap(): r is what the body made.
\* lock.init(v) is refused when the lock is already set.
init_and_get_stored(lock, r) ==
    Ret([r.w EXCEPT !.locks[lock] =
            IF Len(r.w.locks[lock]) = 0 THEN r.val ELSE r.w.locks[lock]],
        IF Len(r.w.locks[lock]) = 0 THEN r.val[1] ELSE r.w.locks[lock][1])

\* f().await never completes, or its value is stored and read back
init_and_get(lock, r) ==
    Only({IF x.out # "ok" THEN x ELSE init_and_get_stored(lock, x) : x \in {r}})

\* try_get() first; otherwise r, the result of running the body from
\* Entered(lock, w), is stored and read back.
get_or_init(lock, w, r) ==
    IF Len(w.locks[lock]) > 0 THEN Ret(w, w.locks[lock][1])
    ELSE init_and_get(lock, r)

clock_frequency(w) ==
    get_or_init("clock_frequency", w,
        Ret(Entered("clock_frequency", w), clk_hz))

\* the body of clock_frequency_fp once clock_frequency() has returned r
clock_frequency_fp_check(r) ==
    IF Len(FxCheckedFromU32(r.val[1])) = 0
    THEN Diag(r.w, "Clock frequency too large", r.val[1])
    ELSE Ret(r.w, FxCheckedFromU32(r.val[1])[1])

clock_frequency_fp(w) ==
    get_or_init("clock_frequency_fp", w,
        clock_frequency_fp_check(clock_frequency(Entered("clock_frequency_fp", w))))

\* the overflow of an arithmetic result s = [v, ovf]: a panic in a build with
\* overflow checks, a silent wrap without
checked(w, s, m) ==
    IF ~s.ovf THEN Ret(w, s.v)
    ELSE IF overflow_checks THEN Panic(w, m) ELSE Ret(Wrapped(w), s.v)

\* (clock_frequency_fp().await / denominator) + FixedU32::<U4>::from_bits(1)
clock_divider_32b_divide(r, denominator) ==
    IF r.out # "ok" THEN r
    ELSE checked(r.w, FxAddBit(FxDiv(r.val[1], denominator)),
                 "attempt to add with overflow")

clock_divider_32b_body(w) ==
    IF Len(FxCheckedFromU32(PULSE_FREQ_HZ * (2 ^ DividerShift))) = 0
    THEN Diag(w, "Clock divider intermediate computation too large",
              PULSE_FREQ_HZ * (2 ^ DividerShift))
    ELSE clock_divider_32b_divide(
             clock_frequency_fp(w),
             FxCheckedFromU32(PULSE_FREQ_HZ * (2 ^ DividerShift))[1])

clock_divider_32b(w) ==
    get_or_init("clock_divider_32b", w, clock_divider_32b_body(Entered("clock_divider_32b", w)))

\* top.floor().checked_to_num(): r holds the fixed-point top
clock_top_convert(r) ==
    IF r.out # "ok" THEN r
    ELSE IF Len(FxCheckedToU16(FxFloor(r.val[1]))) = 0
         THEN Diag(r.w, "Clock top too large", r.val[1])
         ELSE Ret(r.w, FxCheckedToU16(FxFloor(r.val[1]))[1])

\* (clock_frequency_fp().await / denominator) - FixedU32::<U4>::ONE
clock_top_divide(r, denominator) ==
    IF r.out # "ok" THEN r
    ELSE checked(r.w, FxSubOne(FxDiv(r.val[1], denominator)),
                 "attempt to subtract with overflow")

\* FixedU32::<U4>::checked_from_num(denominator): r holds the denominator
clock_top_denominator(r) ==
    IF r.out # "ok" THEN r
    ELSE IF Len(FxCheckedFromFx(r.val[1])) = 0
         THEN Diag(r.w, "Clock top intermediate computation too large", r.val[1])
         ELSE clock_top_convert(clock_top_divide(clock_frequency_fp(r.w), r.val[1]))

\* ((PULSE_FREQ_HZ as u32 * divider) << 1): the product, then the shift,
\* whose lost bit no build traps
clock_top_shift(r) ==
    IF r.out # "ok" THEN r
    ELSE Ret(IF FxShl1(r.val[1]).ovf THEN Wrapped(r.w) ELSE r.w, FxShl1(r.val[1]).v)

clock_top_product(r) ==
    IF r.out # "ok" THEN r
    ELSE checked(r.w, U32MulFx(PULSE_FREQ_HZ, r.val[1]),
                 "attempt to multiply with overflow")

clock_top(w) ==
    get_or_init("clock_top", w,
        clock_top_denominator(clock_top_shift(clock_top_product(clock_divider_32b(Entered("clock_top", w))))))

clock_divider_narrow(r) ==
    IF r.out # "ok" THEN r
    ELSE IF Len(FxU16LosslessTryFrom(r.val[1])) = 0
         THEN Diag(r.w, "Clock divider too large", r.val[1])
         ELSE Ret(r.w, FxU16LosslessTryFrom(r.val[1])[1])

clock_divider(w) ==
    get_or_init("clock_divider", w,
        clock_divider_narrow(clock_divider_32b(Entered("clock_divider", w))))

\* the f32 literals 0.0, 10.0 and 20.0
Zero == F32Bits(0, 0, 0)

Ten == F32OfInt(10)

Twenty == F32OfInt(20)

\* (r as f32) / d
pulse_fraction(r, d) ==
    Only({IF x.out # "ok" THEN x ELSE Ret(x.w, F32Div(F32OfInt(x.val[1]), d)) : x \in {r}})

pulse_min(w) ==
    get_or_init("pulse_min", w,
        pulse_fraction(clock_top(Entered("pulse_min", w)), Twenty))

pulse_max(w) ==
    get_or_init("pulse_max", w,
        pulse_fraction(clock_top(Entered("pulse_max", w)), Ten))

\* 0.5 * (r1 + r2)
pulse_center_half_sum(r1, r2) ==
    Only({IF x.out # "ok" THEN x ELSE Ret(x.w, F32Mul(Half, F32Add(r1.val[1], x.val[1]))) : x \in {r2}})

pulse_center_second(r1) ==
    Only({IF x.out # "ok" THEN x ELSE pulse_center_half_sum(x, pulse_max(x.w)) : x \in {r1}})

pulse_center(w) ==
    get_or_init("pulse_center", w,
        pulse_center_second(pulse_min(Entered("pulse_center", w))))

\* r1 - r2
pulse_range_difference(r1, r2) ==
    Only({IF x.out # "ok" THEN x ELSE Ret(x.w, F32Sub(r1.val[1], x.val[1])) : x \in {r2}})

pulse_range_second(r1) ==
    Only({IF x.out # "ok" THEN x ELSE pulse_range_difference(x, pulse_min(x.w)) : x \in {r1}})

pulse_range_plus_minus(w) ==
    get_or_init("pulse_range_plus_minus", w,
        pulse_range_second(pulse_center(Entered("pulse_range_plus_minus", w))))

\* The accessor a task calls, by the name of its lock.
Accessor(q, w) ==
    CASE q = "clock_frequency" -> clock_frequency(w)
      [] q = "clock_frequency_fp" -> clock_frequency_fp(w)
      [] q = "clock_divider_32b" -> clock_divider_32b(w)
      [] q = "clock_top" -> clock_top(w)
      [] q = "clock_divider" -> clock_divider(w)
      [] q = "pulse_min" -> pulse_min(w)
      [] q = "pulse_max" -> pulse_max(w)
      [] q = "pulse_center" -> pulse_center(w)
      [] q = "pulse_range_plus_minus" -> pulse_range_plus_minus(w)

\* init_slice: the configuration block reads clock_divider() and then
\* clock_top(); Pwm::new_output_ab runs only once both have returned.  A slice
\* made by new_output_ab has both channels, so the two "did not allow a
\* channel" loops are never entered.
init_slice_config(r1, r2) ==
    Only({IF x.out # "ok" THEN x
          ELSE Ret(x.w, [divider |-> r1.val[1], top |-> x.val[1],
                         phase_correct |-> TRUE, enable |-> TRUE,
                         compare_a |-> 0, compare_b |-> 0]) : x \in {r2}})

init_slice_top(r1) ==
    Only({IF x.out # "ok" THEN x ELSE init_slice_config(x, clock_top(x.w)) : x \in {r1}})

init_slice(w) == init_slice_top(clock_divider(w))

\* The calibration reads of Servo::with_center_and_ranges, in evaluation
\* order: pulse_range_plus_minus(), then pulse_center().
servo_calibration_pair(r1, r2) ==
    Only({IF x.out # "ok" THEN x
          ELSE Ret(x.w, [clkcmp_range |-> r1.val[1], pulse_center |-> x.val[1]]) : x \in {r2}})

servo_calibration_center(r1) ==
    Only({IF x.out # "ok" THEN x ELSE servo_calibration_pair(x, pulse_center(x.w)) : x \in {r1}})

servo_calibration(w) == servo_calibration_center(pulse_range_plus_minus(w))

----------------------------------------------------------------------------
(***************************************************************************)
(* The calibration as a state machine: NTasks tasks of one cooperative     *)
(* executor call the accessors, configure slices and drive servos.         *)
(***************************************************************************)
ClockSet == {3, 6, 7, 409600, 125000000, 133000000,
             FxU32IntLimit - 1, FxU32IntLimit}

World == [locks |-> locks, runs |-> runs, wrapped |-> wrapped]

IdleTask == [pc |-> "ready", msg |-> "", val |-> <<>>, stage |-> "start",
             q |-> "", ret |-> <<>>]

InitPwm ==
    /\ clk_hz \in ClockSet
    /\ overflow_checks \in BOOLEAN
    /\ locks = [l \in LockNames |-> <<>>]
    /\ runs = [l \in LockNames |-> 0]
    /\ wrapped = FALSE
    /\ halted = FALSE
    /\ task = [t \in Tasks |-> IdleTask]
    /\ slice = [t \in Tasks |-> <<>>]
    /\ servo_written = FALSE
    /\ servo = <<>>
    /\ servo_last = <<>>
    /\ ik_leg = <<>>
    /\ ik_last = <<>>
    /\ leg = <<>>
    /\ leg_last = <<>>
    /\ driver = NoDriver

\* What a call leaves behind: the world, and the caller returned to, parked
\* in its diagnostic loop, or stopped with the whole program by the panic.
Settle(t, r, onOk) ==
    /\ locks' = r.w.locks
    /\ runs' = r.w.runs
    /\ wrapped' = r.w.wrapped
    /\ halted' = (r.out = "panic")
    /\ task' = [task EXCEPT ![t] =
                  IF r.out = "ok" THEN onOk
                  ELSE IF r.out = "diag"
                       THEN [@ EXCEPT !.pc = "diag_log", !.msg = r.msg, !.val = r.val]
                       ELSE [@ EXCEPT !.pc = "panicked", !.msg = r.msg]]

CallSettle(t, q, r) == Settle(t, r, [task[t] EXCEPT !.q = q, !.ret = r.val])

InitSliceSettle(t, r) ==
    /\ Settle(t, r, [task[t] EXCEPT !.stage = "sliced"])
    /\ slice' = IF r.out = "ok" THEN [slice EXCEPT ![t] = r.val] ELSE slice

\* The calibration leaves the servo, solver and leg under test alone.
PwmFrame == UNCHANGED <<servoVars, ikVars, legVars, loopVars>>

Runnable(t) == ~halted /\ task[t].pc = "ready"

\* Task t calls accessor q.
Call(t, q) ==
    /\ Runnable(t)
    /\ CallSettle(t, q, Accessor(q, World))
    /\ UNCHANGED <<clk_hz, overflow_checks, slice, servo_written>>
    /\ PwmFrame

\* Task t runs pwm::init_slice.
InitSlice(t) ==
    /\ Runnable(t)
    /\ task[t].stage = "start"
    /\ InitSliceSettle(t, init_slice(World))
    /\ UNCHANGED <<clk_hz, overflow_checks, servo_written>>
    /\ PwmFrame

\* Task t builds a servo on a channel of its slice.
ServoNew(t) ==
    /\ Runnable(t)
    /\ task[t].stage = "sliced"
    /\ Settle(t, servo_calibration(World), [task[t] EXCEPT !.stage = "servo"])
    /\ UNCHANGED <<clk_hz, overflow_checks, slice, servo_written>>
    /\ PwmFrame

\* Task t moves its servo: one duty-cycle write.
ServoWrite(t) ==
    /\ Runnable(t)
    /\ task[t].stage = "servo"
    /\ servo_written' = TRUE
    /\ UNCHANGED <<clk_hz, overflow_checks, locks, runs, wrapped, halted, task, slice>>
    /\ PwmFrame

\* The diagnostic loop: log::error!(..), then ticker.next().await.
DiagLog(t) ==
    /\ ~halted
    /\ task[t].pc = "diag_log"
    /\ task' = [task EXCEPT ![t].pc = "diag_wait"]
    /\ UNCHANGED <<clk_hz, overflow_checks, locks, runs, wrapped, halted, slice,
                   servo_written>>
    /\ PwmFrame

DiagTick(t) ==
    /\ ~halted
    /\ task[t].pc = "diag_wait"
    /\ task' = [task EXCEPT ![t].pc = "diag_log"]
    /\ UNCHANGED <<clk_hz, overflow_checks, locks, runs, wrapped, halted, slice,
                   servo_written>>
    /\ PwmFrame

NextPwm ==
    \/ \E t \in Tasks, q \in LockNames : Call(t, q)
    \/ \E t \in Tasks : InitSlice(t)
    \/ \E t \in Tasks : ServoNew(t)
    \/ \E t \in Tasks : ServoWrite(t)
    \/ \E t \in Tasks : DiagLog(t)
    \/ \E t \in Tasks : DiagTick(t)

SpecPwm == InitPwm /\ [][NextPwm]_vars

\* The timer of a diagnostic loop keeps firing and the executor keeps polling.
SpecPwmFair ==
    /\ SpecPwm
    /\ \A t \in Tasks : WF_vars(DiagLog(t)) /\ WF_vars(DiagTick(t))


----------------------------------------------------------------------------
(***************************************************************************)
(* Properties of the calibration.                                          *)
(***************************************************************************)
IsSet(l) == Len(locks[l]) > 0

InDiag(t) == task[t].pc \in {"diag_log", "diag_wait"}

AnyDiag == \E t \in Tasks : InDiag(t)

\* The locks holding a divider, a top count or a pulse bound.
TimingLocks == LockNames \ {"clock_frequency", "clock_frequency_fp"}

\* floor(n * 2^8 / d) in unbounded arithmetic, by long division.
ScaledQuotient(n, d) ==
    (n \div d) * FracOne * FracOne + (((n % d) * FracOne * FracOne) \div d)

\* The formulas of the calibration in unbounded arithmetic, on raw bits:
\* divider = floor(clk / (50 * 2^17)) + 2^-4, top = floor(clk / (50 * divider * 2)) - 1.
DividerBitsUnbounded(clk) == (clk \div (PULSE_FREQ_HZ * 2 ^ (DividerShift - FracBits))) + 1

TopUnbounded(clk) ==
    ((ScaledQuotient(clk, 2 * PULSE_FREQ_HZ * DividerBitsUnbounded(clk)) - FracOne)
        \div FracOne)

\* C5 (as claimed): under any interleaving of tasks first-accessing a cached
\* quantity through get_or_init, the initializer body runs at most once and
\* every caller returns the stored value.  (Stated for the runs in which no
\* arithmetic wrapped, so that a violation does not rest on C6.)
C5_InitializerAtMostOnce ==
    ~wrapped =>
        /\ \A l \in LockNames : runs[l] <= 1
        /\ \A t \in Tasks : Len(task[t].ret) > 0 => task[t].ret = locks[task[t].q]

\* C6 (as claimed): for every u32 clock frequency the calibration either
\* enters the diagnostic state or produces the divider and top count of the
\* unbounded formulas; no intermediate operation wraps, underflows or panics.
C6_NoUnguardedArithmetic ==
    /\ ~wrapped
    /\ ~halted
    /\ IsSet("clock_divider_32b") =>
          FxBits(locks["clock_divider_32b"][1]) = DividerBitsUnbounded(clk_hz)
    /\ IsSet("clock_top") => locks["clock_top"][1] = TopUnbounded(clk_hz)

\* C7 (as claimed): a calibration value out of the representable range puts
\* the calibration in the diagnostic loop (it does not stop any other way),
\* and from then on no divider, top count or pulse bound is produced or
\* cached, no slice is configured and no servo is written.
C7_FailStop ==
    [][/\ ~halted'
       /\ AnyDiag =>
            /\ \A l \in TimingLocks : locks'[l] = locks[l]
            /\ slice' = slice
            /\ ~servo_written']_vars

\* The period in sixteenths of a clock cycle, (top + 1) * 2 * divider, and
\* the target, clk_hz / PULSE_FREQ_HZ.
PeriodBits == (locks["clock_top"][1] + 1) * 2 * FxBits(locks["clock_divider_32b"][1])

TargetBits ==
    ((clk_hz \div PULSE_FREQ_HZ) * FracOne)
        + (((clk_hz % PULSE_FREQ_HZ) * FracOne) \div PULSE_FREQ_HZ)

Calibrated125MHz == clk_hz = 125000000 /\ IsSet("clock_top")

Abs(n) == IF n < 0 THEN -n ELSE n

\* C8 (as claimed): at 125 MHz and 50 Hz the period (top + 1) * 2 * divider
\* is within one clock cycle of clk_hz / 50 = 2,500,000.
C8_WithinOneCycle ==
    Calibrated125MHz => Abs(PeriodBits - TargetBits) <= FracOne

\* C8 (amended): at 125 MHz and 50 Hz the period is at most the target and
\* less than one step of the top count (2 * divider clock cycles) below it.
C8_WithinOneTopStep ==
    Calibrated125MHz =>
        /\ PeriodBits <= TargetBits
        /\ TargetBits - PeriodBits < 2 * FxBits(locks["clock_divider_32b"][1])

C8_Witness ==
    /\ Calibrated125MHz
    /\ locks["clock_top"][1] = 65358
    /\ FxBits(locks["clock_divider_32b"][1]) = 306


\* the calibration has produced both the divider and the top count
CalibrationCompleted == IsSet("clock_divider_32b") /\ IsSet("clock_top")

\* a task is in the diagnostic loop that logs "Clock top too large"
TopTooLarge ==
    \E t \in Tasks : InDiag(t) /\ task[t].msg = "Clock top too large"

\* C15: for every clock frequency for which the calibration completes, the
\* period (top + 1) * 2 * divider is at most the target clk_hz / 50 and the
\* top count is at most 65535; then the "Clock top too large" loop is not
\* entered, and no run without wrapped arithmetic enters it at all.
C15_PeriodFromBelow ==
    /\ CalibrationCompleted =>
          /\ PeriodBits <= TargetBits
          /\ locks["clock_top"][1] <= U16Limit - 1
          /\ ~TopTooLarge
    /\ ~wrapped => ~TopTooLarge

\* at 133 MHz the calibration completes with a period strictly below the
\* target
C15_Witness ==
    /\ CalibrationCompleted
    /\ clk_hz = 133000000
    /\ PeriodBits < TargetBits

----------------------------------------------------------------------------
(***************************************************************************)
(* The servo (src/src/servo.rs).                                           *)
(***************************************************************************)
\* the f32 literal -1.0
MinusOne == F32Bits(1, 127, 0)

\* (min..=max).contains(&observed): min <= observed && observed <= max, false
\* when any of them is a NaN.  Ok(()) is <<>>.
OutOfRange_check_NoUpper(min, max, observed) ==
    IF F32Le(min, observed)
    THEN <<>>
    ELSE <<[min |-> min, max |-> max, observed |-> observed]>>

OutOfRange_check(min, max, observed) ==
    IF F32Le(min, observed) /\ F32Le(observed, max)
    THEN <<>>
    ELSE <<[min |-> min, max |-> max, observed |-> observed]>>

\* A PwmOutput: the compare value last written to the channel, if any.
NewPwmOutput == [duty |-> <<>>]

ServoFailed(variant, range, r) ==
    [out |-> variant, range |-> range, servo |-> <<>>, w |-> r.w]

\* The struct literal of with_center_and_ranges, once all three checks have
\* passed; r is what the two calibration reads returned.
Servo_struct(pwm, center, range_lower, range_higher, r) ==
    IF r.out # "ok" THEN ServoFailed(r.out, <<>>, r)      \* an await never returns
    ELSE
    [out |-> "Ok", range |-> <<>>, w |-> r.w,
     servo |-> <<[pwm |-> pwm,
                  pulse_min |-> F32Add(center, range_lower),
                  pulse_max |-> F32Add(center, range_higher),
                  clkcmp_center |-> F32Add(r.val[1].pulse_center,
                                           F32Mul(r.val[1].clkcmp_range, center)),
                  clkcmp_range |-> r.val[1].clkcmp_range]>>]

Servo_calibrated(pwm, center, range_lower, range_higher, w) ==
    Only({Servo_struct(pwm, center, range_lower, range_higher, r) : r \in {servo_calibration(w)}})

Servo_check_higher(pwm, center, range_lower, range_higher, w, chk) ==
    IF Len(chk) > 0
    THEN ServoFailed("PulseRangeHigherOutOfRange", chk, [w |-> w])
    ELSE Servo_calibrated(pwm, center, range_lower, range_higher, w)

Servo_check_lower(pwm, center, range_lower, range_higher, w, chk) ==
    IF Len(chk) > 0
    THEN ServoFailed("PulseRangeLowerOutOfRange", chk, [w |-> w])
    ELSE Servo_check_higher(pwm, center, range_lower, range_higher, w,
             OutOfRange_check(Zero, F32Sub(One, center), range_higher))

Servo_check_center(pwm, center, range_lower, range_higher, w, chk) ==
    IF Len(chk) > 0
    THEN ServoFailed("PulseCenterOutOfRange", chk, [w |-> w])
    ELSE Servo_check_lower(pwm, center, range_lower, range_higher, w,
             OutOfRange_check(F32Sub(MinusOne, center), Zero, range_lower))

\* Servo::with_center_and_ranges, from the world w of the cached calibration.
Servo_with_center_and_ranges(pwm, center, range_lower, range_higher, w) ==
    Servo_check_center(pwm, center, range_lower, range_higher, w,
        OutOfRange_check(MinusOne, One, center))

\* clkcmp as u16: the fraction is dropped, the value saturates at 0 and at
\* 65535, and a NaN gives 0.
F32AsU16(clkcmp) ==
    IF IsNaN(clkcmp) \/ clkcmp.s = 1 \/ clkcmp.e < 127 THEN 0
    ELSE IF clkcmp.e >= 143 THEN U16Limit - 1
    ELSE Sig(clkcmp) \div Pow2[150 - clkcmp.e]

\* self.pwm.set_duty_cycle(duty): the channel takes the value unless the
\* hardware layer refuses it (hw_ok is the hardware's answer).
set_duty_cycle(pwm, duty, hw_ok) ==
    IF hw_ok THEN [pwm EXCEPT !.duty = <<duty>>] ELSE pwm

\* the compare value go_to derives from an accepted position
Servo_clkcmp(self, position) ==
    F32Add(self.clkcmp_center, F32Mul(self.clkcmp_range, position))

Servo_write(self, position, hw_ok) ==
    [self |-> [self EXCEPT !.pwm =
                  set_duty_cycle(self.pwm, F32AsU16(Servo_clkcmp(self, position)), hw_ok)],
     out |-> IF hw_ok THEN "Ok" ELSE "PwmError",
     range |-> <<>>,
     attempts |-> 1]

Servo_go_to_checked(self, position, hw_ok, chk) ==
    IF Len(chk) > 0
    THEN [self |-> self, out |-> "OutOfRange", range |-> chk, attempts |-> 0]
    ELSE Servo_write(self, position, hw_ok)

\* A go_to that clamps the position into the servo's range instead.
Servo_go_to_Clamping(self, position, hw_ok) ==
    Servo_write(self,
                IF F32Le(self.pulse_min, position) /\ F32Le(position, self.pulse_max)
                THEN position
                ELSE IF F32Lt(self.pulse_max, position) THEN self.pulse_max
                ELSE self.pulse_min,
                hw_ok)

\* Servo::go_to
Servo_go_to(self, position, hw_ok) ==
    Servo_go_to_checked(self, position, hw_ok,
        OutOfRange_check(self.pulse_min, self.pulse_max, position))

(***************************************************************************)
(* The servo as a state machine: on a calibrated board, servos are         *)
(* constructed on a channel of a configured slice and commanded.           *)
(***************************************************************************)
EmptyWorld == [locks |-> [l \in LockNames |-> <<>>],
               runs |-> [l \in LockNames |-> 0],
               wrapped |-> FALSE]

\* The board after main has run pwm::init_slice.
InitBoard(clk) ==
    /\ clk_hz = clk
    /\ overflow_checks \in BOOLEAN
    /\ \E sliced \in {init_slice(EmptyWorld)} :
          /\ locks = sliced.w.locks
          /\ runs = sliced.w.runs
          /\ slice = [t \in Tasks |-> sliced.val]
    /\ wrapped = FALSE
    /\ halted = FALSE
    /\ task = [t \in Tasks |-> [IdleTask EXCEPT !.stage = "sliced"]]
    /\ servo_written = FALSE

BoardClocks == {125000000, 133000000}

\* Arguments of the constructor and of go_to: n / 900 is n tenths of a
\* degree of the servo's 180-degree travel.
CenterSet == {F32NaN, F32Of(-1080, 900), MinusOne, Zero, Half, F32Of(899, 900), F32Of(1080, 900)}

LowerSet == {F32NaN, F32Of(-1800, 900), F32Of(-1799, 900), MinusOne, F32Of(-471, 900), Zero, F32Of(180, 900)}

HigherSet == {F32NaN, F32Of(-180, 900), Zero, F32Of(1, 900), Half, F32Of(471, 900), F32Of(1800, 900)}

PositionSet == {F32NaN, F32Of(-1350, 900), MinusOne, F32Of(-471, 900), F32Of(-1, 900), Zero, Half, F32Of(451, 900), One, F32Of(901, 900)}

InitServo ==
    /\ \E clk \in BoardClocks : InitBoard(clk)
    /\ servo = <<>>
    /\ servo_last = <<>>
    /\ ik_leg = <<>>
    /\ ik_last = <<>>
    /\ leg = <<>>
    /\ leg_last = <<>>
    /\ driver = NoDriver

ServoConstructed(center, range_lower, range_higher, r) ==
    /\ locks' = r.w.locks
    /\ runs' = r.w.runs
    /\ servo' = IF r.out = "Ok" THEN r.servo ELSE servo
    /\ servo_last' = <<[op |-> "with_center_and_ranges",
                        center |-> center,
                        lower |-> range_lower,
                        higher |-> range_higher,
                        position |-> F32NaN, hw_ok |-> TRUE,
                        out |-> r.out, range |-> r.range, attempts |-> 0,
                        before |-> <<>>, made |-> r.servo]>>

\* A servo is constructed on a channel of the slice; the servo owns the
\* channel from then on.
ServoConstruct(center, range_lower, range_higher) ==
    /\ Len(servo) = 0
    /\ \E r \in {Servo_with_center_and_ranges(NewPwmOutput, center, range_lower, range_higher, World)} :
          ServoConstructed(center, range_lower, range_higher, r)
    /\ UNCHANGED <<clk_hz, overflow_checks, wrapped, halted, task, slice, servo_written>>
    /\ UNCHANGED <<ikVars, legVars, loopVars>>

ServoMoved(position, hw_ok, r) ==
    /\ servo' = <<r.self>>
    /\ servo_written' = (servo_written \/ r.attempts > 0)
    /\ servo_last' = <<[op |-> "go_to",
                        center |-> F32NaN, lower |-> F32NaN, higher |-> F32NaN,
                        position |-> position, hw_ok |-> hw_ok,
                        out |-> r.out, range |-> r.range, attempts |-> r.attempts,
                        before |-> servo, made |-> <<>>]>>

\* The servo is commanded to a position; hw_ok is the hardware's answer to
\* the write, should one be made.
ServoGoTo(position, hw_ok) ==
    /\ Len(servo) > 0
    /\ \E r \in {Servo_go_to(servo[1], position, hw_ok)} : ServoMoved(position, hw_ok, r)
    /\ UNCHANGED <<clk_hz, overflow_checks, locks, runs, wrapped, halted, task, slice>>
    /\ UNCHANGED <<ikVars, legVars, loopVars>>

NextServo ==
    \/ \E c \in CenterSet, lo \in LowerSet, hi \in HigherSet : ServoConstruct(c, lo, hi)
    \/ \E p \in PositionSet, hw_ok \in BOOLEAN : ServoGoTo(p, hw_ok)

SpecServo == InitServo /\ [][NextServo]_vars

(***************************************************************************)
(* Properties of the servo.                                                *)
(***************************************************************************)
LastIs(op) == Len(servo_last) > 0 /\ servo_last[1].op = op

\* x is a number within [lo, hi]
Within(x, lo, hi) == F32Le(lo, x) /\ F32Le(x, hi)

\* C1: go_to never clamps: a position outside the servo's own
\* [pulse_min, pulse_max] returns OutOfRange carrying that min, that max and
\* the position, attempts no write and leaves the channel's last written
\* value as it was; a position inside the range has exactly one write
\* attempted.
C1_GoToNeverClamps ==
    LastIs("go_to") =>
        IF Within(servo_last[1].position,
                  servo_last[1].before[1].pulse_min, servo_last[1].before[1].pulse_max)
        THEN /\ servo_last[1].attempts = 1
             /\ servo_last[1].out \in {"Ok", "PwmError"}
        ELSE /\ servo_last[1].out = "OutOfRange"
             /\ servo_last[1].range =
                    <<[min |-> servo_last[1].before[1].pulse_min,
                       max |-> servo_last[1].before[1].pulse_max,
                       observed |-> servo_last[1].position]>>
             /\ servo_last[1].attempts = 0
             /\ servo[1].pwm = servo_last[1].before[1].pwm

\* A position above the range is refused after an earlier position was
\* written: the channel still holds the earlier value.
C1_Witness ==
    /\ LastIs("go_to")
    /\ servo_last[1].out = "OutOfRange"
    /\ F32Lt(servo_last[1].before[1].pulse_max, servo_last[1].position)
    /\ Len(servo[1].pwm.duty) > 0

ConstructionFailed == servo_last[1].out # "Ok"

\* C4 (as claimed): construction fails if and only if center is outside
\* [-1, 1] or center + lowerExtent or center + upperExtent is outside
\* [-1, 1]; a constructed servo has [pulse_min, pulse_max] within [-1, 1].
C4_FailsIffSumsLeaveEnvelope ==
    LastIs("with_center_and_ranges") =>
        /\ ConstructionFailed <=>
              \/ ~Within(servo_last[1].center, MinusOne, One)
              \/ ~Within(F32Add(servo_last[1].center, servo_last[1].lower), MinusOne, One)
              \/ ~Within(F32Add(servo_last[1].center, servo_last[1].higher), MinusOne, One)
        /\ ~ConstructionFailed =>
              /\ F32Le(MinusOne, servo_last[1].made[1].pulse_min)
              /\ F32Le(servo_last[1].made[1].pulse_max, One)

\* C4 (amended): construction fails if and only if center is outside
\* [-1, 1], or lowerExtent is outside [-1 - center, 0], or upperExtent is
\* outside [0, 1 - center]; a constructed servo has
\* -1 <= pulse_min <= center <= pulse_max <= 1.
C4_FailsIffExtentsLeaveTheirRanges ==
    LastIs("with_center_and_ranges") =>
        /\ ConstructionFailed <=>
              \/ ~Within(servo_last[1].center, MinusOne, One)
              \/ ~Within(servo_last[1].lower, F32Sub(MinusOne, servo_last[1].center), Zero)
              \/ ~Within(servo_last[1].higher, Zero, F32Sub(One, servo_last[1].center))
        /\ ~ConstructionFailed =>
              /\ F32Le(MinusOne, servo_last[1].made[1].pulse_min)
              /\ F32Le(servo_last[1].made[1].pulse_min, servo_last[1].center)
              /\ F32Le(servo_last[1].center, servo_last[1].made[1].pulse_max)
              /\ F32Le(servo_last[1].made[1].pulse_max, One)

\* A positive lower extent is refused although center + lowerExtent and
\* center + upperExtent are both within [-1, 1].
C4_Witness ==
    /\ LastIs("with_center_and_ranges")
    /\ servo_last[1].out = "PulseRangeLowerOutOfRange"
    /\ Within(servo_last[1].center, MinusOne, One)
    /\ Within(F32Add(servo_last[1].center, servo_last[1].lower), MinusOne, One)
    /\ Within(F32Add(servo_last[1].center, servo_last[1].higher), MinusOne, One)

----------------------------------------------------------------------------
(***************************************************************************)
(* The planar two-link solver (src/src/ik.rs).                             *)
(***************************************************************************)
HIP_SERVO_MIN_RADIANS == F32Mul(F32Bits(1, 126, 0), PI)

HIP_SERVO_MAX_RADIANS == F32Mul(Half, PI)

KNEE_SERVO_MIN_RADIANS == F32Mul(F32Bits(1, 126, 0), PI)

KNEE_SERVO_MAX_RADIANS == F32Mul(Half, PI)

\* const { 1.0 / (0.5 * PI) }
TimesTwoOverPi(theta) == F32Mul(theta, F32Div(One, F32Mul(Half, PI)))

Cartesian_magnitude_squared(x, y) == F32Add(F32Mul(x, x), F32Mul(y, y))

length_fully_extended_Twice(self) ==
    F32Mul(Two, F32Add(self.length_hip_to_knee, self.length_knee_to_foot))

length_fully_extended(self) == F32Add(self.length_hip_to_knee, self.length_knee_to_foot)

\* (theta < min) || (theta > max): false for a NaN
outside_limits_Never(theta, min, max) == FALSE

outside_limits(theta, min, max) == F32Lt(theta, min) \/ F32Lt(max, theta)

IkResult(out, hip, knee, radians, lfe_sq, mag_sq) ==
    [out |-> out, hip |-> hip, knee |-> knee, radians |-> radians,
     length_fully_extended_squared |-> lfe_sq, magnitude_squared |-> mag_sq]

\* (a + b - c) * 0.5 / d
cos_theta_internal(a, b, c, d) == F32Div(F32Mul(F32Sub(F32Add(a, b), c), Half), d)

\* theta_sigma + theta_hip_internal
theta_hip_of(self, x, y, magnitude_squared) ==
    F32Add(atan2f(y, x),
           acosf(cos_theta_internal(
                     F32Mul(self.length_hip_to_knee, self.length_hip_to_knee),
                     magnitude_squared,
                     F32Mul(self.length_knee_to_foot, self.length_knee_to_foot),
                     F32Mul(self.length_hip_to_knee, sqrtf(magnitude_squared)))))

\* theta_knee_internal - 0.5 * PI + theta_hip
theta_knee_of(self, magnitude_squared, theta_hip) ==
    F32Add(F32Sub(acosf(cos_theta_internal(
                            F32Mul(self.length_hip_to_knee, self.length_hip_to_knee),
                            F32Mul(self.length_knee_to_foot, self.length_knee_to_foot),
                            magnitude_squared,
                            F32Mul(self.length_hip_to_knee, self.length_knee_to_foot))),
                  F32Mul(Half, PI)),
           theta_hip)

inverse_kinematics_limits(theta_hip, theta_knee) ==
    IF outside_limits(theta_hip, HIP_SERVO_MIN_RADIANS, HIP_SERVO_MAX_RADIANS)
    THEN IkResult("ServoOutOfRange::Hip", F32NaN, F32NaN, theta_hip, F32NaN, F32NaN)
    ELSE IF outside_limits(theta_knee, KNEE_SERVO_MIN_RADIANS, KNEE_SERVO_MAX_RADIANS)
    THEN IkResult("ServoOutOfRange::Knee", F32NaN, F32NaN, theta_knee, F32NaN, F32NaN)
    ELSE IkResult("Ok", TimesTwoOverPi(theta_hip), TimesTwoOverPi(theta_knee), F32NaN, F32NaN, F32NaN)

inverse_kinematics_knee(self, magnitude_squared, theta_hip) ==
    Only({inverse_kinematics_limits(theta_hip, tk) : tk \in {theta_knee_of(self, magnitude_squared, theta_hip)}})

inverse_kinematics_angles(self, magnitude_squared, theta_hip) ==
    Only({inverse_kinematics_knee(self, magnitude_squared, th) : th \in {theta_hip}})

inverse_kinematics_reach(self, x, y, magnitude_squared, length_fully_extended_squared) ==
    IF F32Lt(length_fully_extended_squared, magnitude_squared)
    THEN IkResult("Unreachable", F32NaN, F32NaN, F32NaN,
                  length_fully_extended_squared, magnitude_squared)
    ELSE inverse_kinematics_angles(self, magnitude_squared,
                                   theta_hip_of(self, x, y, magnitude_squared))

inverse_kinematics_squares(self, x, y, length) ==
    Only({inverse_kinematics_reach(self, x, y, ms, lfe) : ms \in {Cartesian_magnitude_squared(x, y)}, lfe \in {F32Mul(length, length)}})

\* ik::Leg::inverse_kinematics
inverse_kinematics(self, x, y) ==
    Only({inverse_kinematics_squares(self, x, y, length) : length \in {length_fully_extended(self)}})

(***************************************************************************)
(* The solver as a function of its arguments: a leg of two links is asked  *)
(* for the servo positions of a displacement.                              *)
(***************************************************************************)
IkLeg(l1, l2) == [length_hip_to_knee |-> l1, length_knee_to_foot |-> l2]

\* link lengths and displacements, in hundredths
Hundredths(n) == F32Of(n, 100)

IkLegSet == {IkLeg(Hundredths(250), Hundredths(560)), IkLeg(Hundredths(256), Hundredths(547)), IkLeg(Hundredths(400), Hundredths(400)), IkLeg(Hundredths(560), Hundredths(250))}

IkXSet == {Hundredths(n) : n \in {-600, -300, 0, 1, 300, 310, 400, 500, 572, 800, 803, 804, 810, 811, 900}}

IkYSet == {Hundredths(n) : n \in {-700, -400, -300, -1, 0, 300, 400, 572, 600}}

\* a call that has not returned yet: its arguments
IkCall(x, y) == [x |-> x, y |-> y, res |-> <<>>]

InitIk ==
    /\ InitBoard(125000000)
    /\ servo = <<>>
    /\ servo_last = <<>>
    /\ ik_leg \in {<<l>> : l \in IkLegSet}
    /\ ik_last \in {<<IkCall(x, y)>> : x \in IkXSet, y \in IkYSet}
    /\ leg = <<>>
    /\ leg_last = <<>>
    /\ driver = NoDriver

\* leg.inverse_kinematics(Cartesian { x, y }) returns.
IkSolve ==
    /\ Len(ik_last) > 0
    /\ Len(ik_last[1].res) = 0
    /\ ik_last' = <<[ik_last[1] EXCEPT !.res = <<inverse_kinematics(ik_leg[1], ik_last[1].x, ik_last[1].y)>>]>>
    /\ UNCHANGED <<pwmVars, servoVars, ik_leg, legVars, loopVars>>

NextIk == IkSolve

SpecIk == InitIk /\ [][NextIk]_vars

(***************************************************************************)
(* Properties of the solver.                                               *)
(***************************************************************************)
IkSolved == Len(ik_last) > 0 /\ Len(ik_last[1].res) > 0

IkRes == ik_last[1].res[1]

\* hipToKnee + kneeToFoot, and the distance of the displacement from the hip
Reach == F32Add(ik_leg[1].length_hip_to_knee, ik_leg[1].length_knee_to_foot)

MagnitudeSquared ==
    F32Add(F32Mul(ik_last[1].x, ik_last[1].x), F32Mul(ik_last[1].y, ik_last[1].y))

Distance == sqrtf(MagnitudeSquared)

\* the distance from the hip exceeds hipToKnee + kneeToFoot
BeyondReach == F32Lt(Reach, Distance)

\* C3: a displacement whose distance from the hip exceeds hipToKnee +
\* kneeToFoot fails with Unreachable, no angle is returned, and the reported
\* reach bound (the squared reach) is strictly below the reported magnitude
\* (the squared distance of the displacement).
C3_BeyondReachUnreachable ==
    (IkSolved /\ BeyondReach) =>
        /\ IkRes.out = "Unreachable"
        /\ IsNaN(IkRes.hip) /\ IsNaN(IkRes.knee)
        /\ IkRes.length_fully_extended_squared = F32Mul(Reach, Reach)
        /\ IkRes.magnitude_squared = MagnitudeSquared
        /\ F32Lt(IkRes.length_fully_extended_squared, IkRes.magnitude_squared)

\* a displacement beyond the reach by less than a hundredth, off both axes
C3_Witness ==
    /\ IkSolved /\ BeyondReach
    /\ IkRes.out = "Unreachable"
    /\ ~IsZero(ik_last[1].x) /\ ~IsZero(ik_last[1].y)
    /\ F32Lt(Distance, F32Add(Reach, Hundredths(1)))

ThetaHip == theta_hip_of(ik_leg[1], ik_last[1].x, ik_last[1].y, MagnitudeSquared)

ThetaKnee == theta_knee_of(ik_leg[1], MagnitudeSquared, ThetaHip)

\* the solver's reachability check has let the displacement pass
PassedReach == IkSolved /\ IkRes.out # "Unreachable"

\* C10 (as claimed): a displacement that passes the reachability check gets
\* the hip and knee angles in radians; the solver fails only with
\* Unreachable, never with a servo-out-of-range error.
C10_NoJointLimitCheck ==
    PassedReach =>
        /\ IkRes.out = "Ok"
        /\ IkRes.hip = ThetaHip
        /\ IkRes.knee = ThetaKnee

\* theta is within [-PI/2, PI/2], or a NaN
InsideLimits(theta) == IsNaN(theta) \/ Within(theta, F32Neg(FRAC_PI_2), FRAC_PI_2)

\* C10 (amended): for a displacement that passes the reachability check the
\* solver checks both joints against [-PI/2, PI/2]: a hip angle outside fails
\* with ServoOutOfRange::Hip carrying it, otherwise a knee angle outside
\* fails with ServoOutOfRange::Knee carrying it, otherwise both angles are
\* returned multiplied by 2 / PI, each a normalized position within [-1, 1]
\* or a NaN.
C10_JointLimitsChecked ==
    PassedReach =>
        IF InsideLimits(ThetaHip)
        THEN IF InsideLimits(ThetaKnee)
             THEN /\ IkRes.out = "Ok"
                  /\ IkRes.hip = F32Mul(ThetaHip, F32Div(One, FRAC_PI_2))
                  /\ IkRes.knee = F32Mul(ThetaKnee, F32Div(One, FRAC_PI_2))
                  /\ IsNaN(IkRes.hip) \/ Within(IkRes.hip, MinusOne, One)
                  /\ IsNaN(IkRes.knee) \/ Within(IkRes.knee, MinusOne, One)
             ELSE /\ IkRes.out = "ServoOutOfRange::Knee"
                  /\ IkRes.radians = ThetaKnee
        ELSE /\ IkRes.out = "ServoOutOfRange::Hip"
             /\ IkRes.radians = ThetaHip

\* a reachable displacement whose hip angle is beyond a quarter turn: the
\* solver fails with ServoOutOfRange::Hip
C10_Witness ==
    /\ PassedReach
    /\ IkRes.out = "ServoOutOfRange::Hip"
    /\ F32Lt(FRAC_PI_2, IkRes.radians)

\* the displacement is not the zero vector
OffHip == ~IsZero(ik_last[1].x) \/ ~IsZero(ik_last[1].y)

\* the distance between two points that counts as none: a thousandth
RoundTripTolerance == F32Of(1, 1000)

\* the angle, in radians, of a normalized position p
ServoAngle(p) == F32Mul(p, FRAC_PI_2)

\* forward kinematics in the solver's convention: the thigh at the hip
\* angle, the shin a quarter turn behind the knee angle
ForwardX(l, hip, knee) ==
    F32Add(F32Mul(l.length_hip_to_knee, cosf(ServoAngle(hip))),
           F32Mul(l.length_knee_to_foot, sinf(ServoAngle(knee))))

ForwardY(l, hip, knee) ==
    F32Sub(F32Mul(l.length_hip_to_knee, sinf(ServoAngle(hip))),
           F32Mul(l.length_knee_to_foot, cosf(ServoAngle(knee))))

\* a and b differ by no more than the tolerance
Near(a, b) == F32Le(F32Abs(F32Sub(a, b)), RoundTripTolerance)

\* the returned pair of angles puts the foot back on the displacement
RoundTrips ==
    /\ Near(ForwardX(ik_leg[1], IkRes.hip, IkRes.knee), ik_last[1].x)
    /\ Near(ForwardY(ik_leg[1], IkRes.hip, IkRes.knee), ik_last[1].y)

\* C11 (as claimed): for every displacement with 0 < distance <= hipToKnee
\* + kneeToFoot, the hip and knee angles that the solver returns, fed
\* through forward kinematics with the same link lengths, give the
\* displacement back within tolerance.
C11_RoundTrip ==
    (IkSolved /\ OffHip /\ ~BeyondReach /\ IkRes.out = "Ok") => RoundTrips

----------------------------------------------------------------------------
(***************************************************************************)
(* The leg (src/src/leg.rs).  The items of crate::ik that leg.rs names but *)
(* src/src/ik.rs does not hold (the link lengths and hip_to_foot_2d) follow*)
(* the specification's Planar2LinkSolver and its end-to-end scenario.      *)
(***************************************************************************)
TWO_PI == F32Mul(Two, PI)

NEGATIVE_PI == F32Neg(PI)

\* pwm::RADIANS_TO_SERVO
RADIANS_TO_SERVO == F32Div(Two, PI)

\* const { PI / 6.0 }; PI / 2.0 and PI / 4.0 are FRAC_PI_2 and FRAC_PI_4
FRAC_PI_6 == F32Div(PI, F32OfInt(6))

\* ik::LENGTH_HIP_TO_KNEE, ik::LENGTH_KNEE_TO_FOOT and ik::LENGTH_CENTER_TO_YAW
LENGTH_HIP_TO_KNEE == F32Of(2563, 1000)

LENGTH_KNEE_TO_FOOT == F32Of(5467, 1000)

LENGTH_CENTER_TO_YAW == One

\* what a loop leaves behind: the value it ends with, or, when a pass leaves
\* the value as it was, no return at all (v is then the value it stays at)
Looped(v, returns) == [v |-> v, returns |-> returns]

RECURSIVE loop_down(_)
\* `while radians >= PI { radians -= TWO_PI }`
loop_down(radians) ==
    IF ~F32Le(PI, radians) THEN Looped(radians, TRUE)
    ELSE Only({IF r = radians THEN Looped(r, FALSE) ELSE loop_down(r) : r \in {F32Sub(radians, TWO_PI)}})

RECURSIVE loop_up(_)
\* `while radians < NEGATIVE_PI { radians += TWO_PI }`
loop_up(radians) ==
    IF ~F32Lt(radians, NEGATIVE_PI) THEN Looped(radians, TRUE)
    ELSE Only({IF r = radians THEN Looped(r, FALSE) ELSE loop_up(r) : r \in {F32Add(radians, TWO_PI)}})

RECURSIVE loop_down_UpperClosed(_)
\* `while radians > PI { radians -= TWO_PI }`
loop_down_UpperClosed(radians) ==
    IF ~F32Lt(PI, radians) THEN Looped(radians, TRUE)
    ELSE Only({IF r = radians THEN Looped(r, FALSE) ELSE loop_down_UpperClosed(r) : r \in {F32Sub(radians, TWO_PI)}})

RECURSIVE loop_up_UpperClosed(_)
\* `while radians <= NEGATIVE_PI { radians += TWO_PI }`
loop_up_UpperClosed(radians) ==
    IF ~F32Le(radians, NEGATIVE_PI) THEN Looped(radians, TRUE)
    ELSE Only({IF r = radians THEN Looped(r, FALSE) ELSE loop_up_UpperClosed(r) : r \in {F32Add(radians, TWO_PI)}})

\* the second loop runs once the first has ended
clamp_second(down) == IF down.returns THEN loop_up(down.v) ELSE down

\* clamp_plus_minus_pi: the first loop, then the second
clamp_plus_minus_pi(radians) ==
    Only({clamp_second(down) : down \in {Only({loop_down(r) : r \in {radians}})}})

wrap_second_UpperClosed(down) == IF down.returns THEN loop_up_UpperClosed(down.v) ELSE down

\* a wrap with the comparisons exchanged: > PI and <= NEGATIVE_PI
wrap_local_yaw_UpperClosed(local_yaw) ==
    Only({wrap_second_UpperClosed(down) : down \in {Only({loop_down_UpperClosed(r) : r \in {local_yaw}})}})

\* the same two loops, inline in ik_to, on local_yaw
wrap_local_yaw(local_yaw) ==
    Only({clamp_second(down) : down \in {Only({loop_down(r) : r \in {local_yaw}})}})

Hip2dResult(out, hip, knee, max_reach, distance) ==
    [out |-> out, hip |-> hip, knee |-> knee, max_reach |-> max_reach,
     distance |-> distance]

hip_to_foot_2d_knee(self, magnitude_squared, theta_hip) ==
    Hip2dResult("Ok", theta_hip, theta_knee_of(self, magnitude_squared, theta_hip), F32NaN, F32NaN)

hip_to_foot_2d_angles(self, magnitude_squared, theta_hip) ==
    Only({hip_to_foot_2d_knee(self, magnitude_squared, th) : th \in {theta_hip}})

hip_to_foot_2d_reach(self, x, y, magnitude_squared, distance, max_reach) ==
    IF F32Lt(max_reach, distance)
    THEN Hip2dResult("Unreachable", F32NaN, F32NaN, max_reach, distance)
    ELSE hip_to_foot_2d_angles(self, magnitude_squared,
                               theta_hip_of(self, x, y, magnitude_squared))

hip_to_foot_2d_distance(self, x, y, magnitude_squared) ==
    Only({hip_to_foot_2d_reach(self, x, y, magnitude_squared, d, r) : d \in {sqrtf(magnitude_squared)}, r \in {length_fully_extended(self)}})

\* ik::hip_to_foot_2d: both angles in radians, no joint limits
hip_to_foot_2d(x, y) ==
    Only({hip_to_foot_2d_distance(IkLeg(LENGTH_HIP_TO_KNEE, LENGTH_KNEE_TO_FOOT), x, y, ms) : ms \in {Cartesian_magnitude_squared(x, y)}})

\* The struct literal of with_home_yaw, once the three servos exist.
Leg_struct(home_yaw_radians, yaw, hip, knee) ==
    [yaw |-> yaw, hip |-> hip, knee |-> knee,
     yaw_servo_x |-> F32Mul(cosf(home_yaw_radians), LENGTH_CENTER_TO_YAW),
     yaw_servo_y |-> F32Mul(sinf(home_yaw_radians), LENGTH_CENTER_TO_YAW),
     home_yaw_radians |-> home_yaw_radians]

LegFailed(variant, r) ==
    [out |-> variant, cause |-> r.out, range |-> r.range, leg |-> <<>>, w |-> r.w]

with_home_yaw_knee(home_yaw_radians, ry, rh, rk) ==
    IF rk.out # "Ok" THEN LegFailed("KneeServo", rk)
    ELSE [out |-> "Ok", cause |-> "Ok", range |-> <<>>, w |-> rk.w,
          leg |-> <<Leg_struct(home_yaw_radians, ry.servo[1], rh.servo[1], rk.servo[1])>>]

with_home_yaw_hip_made(home_yaw_radians, ry, rh) ==
    IF rh.out # "Ok" THEN LegFailed("HipServo", rh)
    ELSE Only({with_home_yaw_knee(home_yaw_radians, ry, rh, rk) : rk \in {Servo_with_center_and_ranges(NewPwmOutput, Zero, F32Div(F32Neg(PI), F32OfInt(4)), F32Div(PI, F32OfInt(4)), rh.w)}})

with_home_yaw_hip(home_yaw_radians, ry) ==
    Only({with_home_yaw_hip_made(home_yaw_radians, ry, rh) : rh \in {Servo_with_center_and_ranges(NewPwmOutput, Zero, F32Div(F32Neg(PI), Two), F32Div(PI, Two), ry.w)}})

with_home_yaw_yaw(home_yaw_radians, ry) ==
    IF ry.out # "Ok" THEN LegFailed("YawServo", ry)
    ELSE with_home_yaw_hip(home_yaw_radians, ry)

with_home_yaw_clamped(home_yaw_radians, w) ==
    Only({with_home_yaw_yaw(home_yaw_radians, ry) : ry \in {Servo_with_center_and_ranges(NewPwmOutput, Zero, F32Div(F32Neg(PI), F32OfInt(6)), F32Div(PI, F32OfInt(6)), w)}})

\* clamp_plus_minus_pi, the first statement of with_home_yaw, does not
\* return: no servo is built and no lock is read
with_home_yaw_looping(w) ==
    [out |-> "NoReturn", cause |-> "clamp_plus_minus_pi", range |-> <<>>, leg |-> <<>>, w |-> w]

\* Leg::with_home_yaw on three fresh channels
Leg_with_home_yaw(home_yaw_radians, w) ==
    Only({IF h.returns THEN with_home_yaw_clamped(h.v, w) ELSE with_home_yaw_looping(w) : h \in {clamp_plus_minus_pi(home_yaw_radians)}})

Command(joint, position) == [joint |-> joint, position |-> position]

\* what ik_to leaves behind: the leg, the result, the positions handed to
\* go_to in the order of the calls, the wrapped local yaw, and the number of
\* calls of set_duty_cycle
IkToResult(self, out, cause, range, cmds, local_yaw, writes) ==
    [self |-> self, out |-> out, cause |-> cause, range |-> range,
     cmds |-> cmds, local_yaw |-> local_yaw, writes |-> writes]

\* the knee's go_to has returned rk
ik_to_knee(self, cmds, local_yaw, writes, rk) ==
    IkToResult([self EXCEPT !.knee = rk.self],
               IF rk.out = "Ok" THEN "Ok" ELSE "CouldntMoveKnee",
               rk.out, rk.range, cmds, local_yaw, writes + rk.attempts)

ik_to_knee_go_to(self, knee, hw, cmds, local_yaw, writes) ==
    Only({ik_to_knee(self, Append(cmds, Command("knee", knee)), local_yaw, writes, rk) : rk \in {Servo_go_to(self.knee, knee, hw.knee)}})

\* A slip of ik_to: a failure of the hip does not stop the move.
ik_to_hip_KneeRegardless(self, knee, hw, cmds, local_yaw, writes, rh) ==
    ik_to_knee_go_to([self EXCEPT !.hip = rh.self], knee, hw, cmds, local_yaw,
                     writes + rh.attempts)

\* the hip's go_to has returned rh
ik_to_hip(self, knee, hw, cmds, local_yaw, writes, rh) ==
    IF rh.out # "Ok"
    THEN IkToResult([self EXCEPT !.hip = rh.self], "CouldntMoveHip",
                    rh.out, rh.range, cmds, local_yaw, writes + rh.attempts)
    ELSE ik_to_knee_go_to([self EXCEPT !.hip = rh.self], knee, hw, cmds, local_yaw,
                          writes + rh.attempts)

ik_to_hip_go_to(self, hip, knee, hw, cmds, local_yaw, writes) ==
    Only({ik_to_hip(self, knee, hw, Append(cmds, Command("hip", hip)), local_yaw, writes, rh) : rh \in {Servo_go_to(self.hip, hip, hw.hip)}})

\* hip_to_foot_2d has returned sol
ik_to_solved(self, hw, cmds, local_yaw, writes, sol) ==
    IF sol.out # "Ok"
    THEN IkToResult(self, "Ik2dError", sol.out, <<>>, cmds, local_yaw, writes)
    ELSE ik_to_hip_go_to(self, F32Mul(RADIANS_TO_SERVO, sol.hip),
                         F32Mul(RADIANS_TO_SERVO, sol.knee), hw, cmds, local_yaw, writes)

ik_to_projected(self, dx, dy, foot_z, hw, cmds, local_yaw, writes) ==
    Only({ik_to_solved(self, hw, cmds, local_yaw, writes, sol) : sol \in {hip_to_foot_2d(sqrtf(F32Add(F32Mul(dx, dx), F32Mul(dy, dy))), foot_z)}})

\* the yaw's go_to has returned ry
ik_to_yaw(self, dx, dy, foot_z, hw, cmds, local_yaw, ry) ==
    IF ry.out # "Ok"
    THEN IkToResult([self EXCEPT !.yaw = ry.self], "CouldntMoveYaw",
                    ry.out, ry.range, cmds, local_yaw, ry.attempts)
    ELSE ik_to_projected([self EXCEPT !.yaw = ry.self], dx, dy, foot_z, hw, cmds,
                         local_yaw, ry.attempts)

ik_to_yaw_go_to(self, dx, dy, foot_z, hw, yaw, local_yaw) ==
    Only({ik_to_yaw(self, dx, dy, foot_z, hw, <<Command("yaw", yaw)>>, local_yaw, ry) : ry \in {Servo_go_to(self.yaw, yaw, hw.yaw)}})

ik_to_local_yaw(self, dx, dy, foot_z, hw, local_yaw) ==
    Only({ik_to_yaw_go_to(self, dx, dy, foot_z, hw, F32Mul(RADIANS_TO_SERVO, ly), ly) : ly \in {local_yaw}})

\* dx and dy are horizontal_displacement_x and horizontal_displacement_y
ik_to_displacement(self, dx, dy, foot_z, hw) ==
    Only({IF ly.returns THEN ik_to_local_yaw(self, dx, dy, foot_z, hw, ly.v)
          ELSE IkToResult(self, "NoReturn", "local_yaw", <<>>, <<>>, ly.v, 0) : ly \in {wrap_local_yaw(F32Sub(atan2f(dx, dy), self.home_yaw_radians))}})

\* Leg::ik_to; hw holds the hardware's answer to each joint's write
Leg_ik_to(self, foot_x, foot_y, foot_z, hw) ==
    Only({ik_to_displacement(self, dx, dy, foot_z, hw) : dx \in {F32Sub(foot_x, self.yaw_servo_x)}, dy \in {F32Sub(foot_y, self.yaw_servo_y)}})

(***************************************************************************)
(* The functions of leg.rs applied to their arguments.  Two                *)
(* specifications follow.  SpecLeg holds the calls a program can make:     *)
(* with_home_yaw, the only constructor of Leg, on a board whose slices are *)
(* configured.  It hands back no Leg (the hip extents are refused), so no  *)
(* call of ik_to follows it.  SpecLegArgs applies ik_to as a function of   *)
(* its receiver: the receiver is drawn from the values of the type, three  *)
(* servos as Servo's public constructor makes them (center 0; the yaw and  *)
(* knee extents of with_home_yaw, and for the hip, whose PI / 2 the        *)
(* constructor refuses, extents it accepts), their channels fresh or       *)
(* written by an earlier go_to, a clamped home yaw and the mounting offset *)
(* derived from it.  These receivers are more than a program holds, so     *)
(* SpecLegArgs serves only for what ik_to does on every receiver.          *)
(***************************************************************************)
HomeYawSet == {Zero, FRAC_PI_2}

YawExtentSet == {FRAC_PI_6}

HipExtentSet == {Half, One}

KneeExtentSet == {FRAC_PI_4}

\* foot targets <<x, y, z>>, in hundredths
Target(x, y, z) == <<Hundredths(x), Hundredths(y), Hundredths(z)>>

TargetSet == {Target(800, 0, -547), Target(100, 500, -300), Target(100, 900, 0), Target(300, 400, -300), Target(100, 300, 500), Target(-300, 0, 0), Target(100, -500, -300), Target(100, 0, 0), Target(-300, 100, 0), Target(756, -4, -332), Target(856, -4, -332), Target(208, 100, 0), Target(860, 0, 0), Target(100, 700, 0), Target(100, 200, -100), Target(120, 600, -200)}

HwOk(yaw, hip, knee) == [yaw |-> yaw, hip |-> hip, knee |-> knee]

HwSet == {HwOk(TRUE, TRUE, TRUE), HwOk(FALSE, TRUE, TRUE), HwOk(TRUE, FALSE, TRUE), HwOk(TRUE, TRUE, FALSE)}

\* home yaws handed to with_home_yaw: 0, PI, -PI, 3 PI, -2.5 PI, 22, 25, -30,
\* 1e30, +infinity, -infinity and a NaN
NewHomeYawSet == {Zero, PI, F32Neg(PI), F32Mul(F32OfInt(3), PI), F32Mul(F32Of(-5, 2), PI), F32OfInt(22), F32OfInt(25), F32OfInt(-30), F32Bits(0, 226, 4846282), F32Bits(0, 255, 0), F32Bits(1, 255, 0), F32NaN}

\* further home yaws: PI / 2, -PI / 2, PI / 6, PI / 4, 1, -1, 0.5, 2 PI, 10,
\* -10, 20 and -20
MoreHomeYawSet == {FRAC_PI_2, F32Neg(FRAC_PI_2), FRAC_PI_6, FRAC_PI_4, One, MinusOne, Half, TWO_PI, Ten, F32Neg(Ten), Twenty, F32Neg(Twenty)}

ServoOf(extent) ==
    Servo_with_center_and_ranges(NewPwmOutput, Zero, F32Neg(extent), extent, World).servo[1]

\* the servo s after an earlier go_to(0.0), or as constructed
ServoAfter(s, written) == IF written THEN Servo_go_to(s, Zero, TRUE).self ELSE s

LegSet ==
    {Leg_struct(clamp_plus_minus_pi(h).v, ServoAfter(ServoOf(ye), wr), ServoAfter(ServoOf(he), wr), ServoAfter(ServoOf(ke), wr)) :
        h \in HomeYawSet, ye \in YawExtentSet, he \in HipExtentSet, ke \in KneeExtentSet, wr \in BOOLEAN}

\* calls that have not returned yet: their arguments, and where they are
WithHomeYawCall(home_yaw_radians) ==
    [op |-> "with_home_yaw", home |-> home_yaw_radians, self |-> <<>>,
     target |-> <<>>, hw |-> HwOk(TRUE, TRUE, TRUE), at |-> "call", res |-> <<>>]

IkToCall(self, target, hw) ==
    [op |-> "ik_to", home |-> self.home_yaw_radians, self |-> <<self>>,
     target |-> target, hw |-> hw, at |-> "call", res |-> <<>>]

LegCalls(calibrated) ==
    IF calibrated
    THEN {<<IkToCall(l, t, hw)>> : l \in LegSet, t \in TargetSet, hw \in HwSet}
    ELSE {<<WithHomeYawCall(h)>> : h \in NewHomeYawSet}

\* some channel of the receiver of call c holds a duty cycle: a go_to wrote it
Written(c) == c.op = "ik_to" /\ Len(c.self[1].yaw.pwm.duty) > 0

\* the board after the two calls of pwm::init_slice, as in ik_test.rs, with
\* the calibration already read by an earlier servo or not
LegBoard(sliced) ==
    /\ slice = [t \in Tasks |-> sliced.val]
    /\ \E w \in {sliced.w, servo_calibration(sliced.w).w} :
          /\ locks = w.locks
          /\ runs = w.runs
    /\ wrapped = FALSE
    /\ halted = FALSE
    /\ task = [t \in Tasks |-> [IdleTask EXCEPT !.stage = "sliced"]]
    /\ servo = <<>>
    /\ servo_last = <<>>
    /\ ik_leg = <<>>
    /\ ik_last = <<>>
    /\ leg = <<>>
    /\ driver = NoDriver

\* a call of Leg::with_home_yaw is about to be made
InitLeg ==
    /\ clk_hz = 125000000
    /\ overflow_checks \in BOOLEAN
    /\ \E sliced \in {init_slice(EmptyWorld)} : LegBoard(sliced)
    /\ leg_last \in {<<WithHomeYawCall(h)>> : h \in NewHomeYawSet \cup MoreHomeYawSet}
    /\ servo_written = FALSE

\* a function of leg.rs is about to be applied to its arguments
InitLegArgs ==
    /\ clk_hz = 125000000
    /\ overflow_checks = TRUE
    /\ \E sliced \in {init_slice(EmptyWorld)} : LegBoard(sliced)
    /\ leg_last \in LegCalls(IsSet("pulse_center"))
    /\ servo_written = Written(leg_last[1])

Pending(op) ==
    Len(leg_last) > 0 /\ leg_last[1].op = op /\ Len(leg_last[1].res) = 0

\* with_home_yaw has returned r, or it stays in the loop of
\* clamp_plus_minus_pi, whose passes change nothing
LegMade(r) ==
    /\ locks' = r.w.locks
    /\ runs' = r.w.runs
    /\ leg' = r.leg
    /\ leg_last' =
          IF r.out = "NoReturn"
          THEN <<[leg_last[1] EXCEPT !.at = r.cause]>>
          ELSE <<[leg_last[1] EXCEPT !.at = "returned", !.res = <<[out |-> r.out, cause |-> r.cause, range |-> r.range, clamped |-> clamp_plus_minus_pi(leg_last[1].home).v]>>]>>

\* Leg::with_home_yaw runs.
LegNew ==
    /\ Pending("with_home_yaw")
    /\ LegMade(Leg_with_home_yaw(leg_last[1].home, World))
    /\ UNCHANGED <<clk_hz, overflow_checks, wrapped, halted, task, slice, servo_written>>
    /\ UNCHANGED <<servoVars, ikVars, loopVars>>

\* ik_to has returned r, or it stays in the loop on local_yaw
LegMoved(r) ==
    /\ servo_written' = (servo_written \/ r.writes > 0)
    /\ leg_last' =
          IF r.out = "NoReturn"
          THEN <<[leg_last[1] EXCEPT !.at = r.cause]>>
          ELSE <<[leg_last[1] EXCEPT !.at = "returned", !.res = <<r>>]>>

\* Leg::ik_to runs.
IkTo ==
    /\ Pending("ik_to")
    /\ LegMoved(Leg_ik_to(leg_last[1].self[1], leg_last[1].target[1], leg_last[1].target[2], leg_last[1].target[3], leg_last[1].hw))
    /\ UNCHANGED <<clk_hz, overflow_checks, locks, runs, wrapped, halted, task, slice>>
    /\ UNCHANGED <<servoVars, ikVars, leg, loopVars>>

NextLeg == LegNew

SpecLeg == InitLeg /\ [][NextLeg]_vars

NextLegArgs ==
    \/ LegNew
    \/ IkTo

SpecLegArgs == InitLegArgs /\ [][NextLegArgs]_vars

(***************************************************************************)
(* Properties of the leg.                                                  *)
(***************************************************************************)
LastMove == leg_last[1]

Moved == Len(leg_last) > 0 /\ LastMove.op = "ik_to" /\ Len(LastMove.res) > 0

\* the leg before and after the last ik_to, and what the call returned
Before == LastMove.self[1]

MoveRes == LastMove.res[1]

After == MoveRes.self

\* the joints commanded by the last ik_to, in the order of the calls
Joints == [i \in 1..Len(MoveRes.cmds) |-> MoveRes.cmds[i].joint]

\* the compare value that the i-th command of the last ik_to puts on the
\* channel of servo s
DutyOf(s, i) == <<F32AsU16(F32Add(s.clkcmp_center, F32Mul(s.clkcmp_range, MoveRes.cmds[i].position)))>>

\* the i-th command of the last ik_to fails on servo s
Fails(s, i, hw_ok) ==
    ~Within(MoveRes.cmds[i].position, s.pulse_min, s.pulse_max) \/ ~hw_ok

\* C2: ik_to commands the joints in the order yaw, hip, knee; the first
\* servo failure stops the move and is returned tagged with its joint, no
\* later joint is written in that call, and every joint written before the
\* failure keeps its newly commanded value.
C2_OrderAndNoRollback ==
    Moved =>
        /\ Joints \in {<<"yaw">>, <<"yaw", "hip">>, <<"yaw", "hip", "knee">>}
        /\ (MoveRes.out = "CouldntMoveYaw") <=> Fails(Before.yaw, 1, LastMove.hw.yaw)
        /\ MoveRes.out = "CouldntMoveYaw" =>
               /\ Joints = <<"yaw">>
               /\ After.hip = Before.hip
               /\ After.knee = Before.knee
        /\ MoveRes.out # "CouldntMoveYaw" =>
               After.yaw.pwm.duty = DutyOf(Before.yaw, 1)
        /\ (MoveRes.out = "CouldntMoveHip") <=>
               (Len(Joints) >= 2 /\ Fails(Before.hip, 2, LastMove.hw.hip))
        /\ MoveRes.out = "CouldntMoveHip" =>
               /\ Joints = <<"yaw", "hip">>
               /\ After.knee = Before.knee
        /\ (Len(Joints) >= 2 /\ MoveRes.out # "CouldntMoveHip") =>
               After.hip.pwm.duty = DutyOf(Before.hip, 2)
        /\ (MoveRes.out = "CouldntMoveKnee") <=>
               (Len(Joints) = 3 /\ Fails(Before.knee, 3, LastMove.hw.knee))
        /\ (MoveRes.out = "Ok") =>
               /\ Joints = <<"yaw", "hip", "knee">>
               /\ After.knee.pwm.duty = DutyOf(Before.knee, 3)

\* the hip fails in a move of a leg whose channels an earlier move has
\* written: the yaw channel holds a new value, the knee channel the old one
C2_Witness ==
    /\ Moved
    /\ MoveRes.out = "CouldntMoveHip"
    /\ Len(Before.yaw.pwm.duty) > 0
    /\ After.yaw.pwm.duty # Before.yaw.pwm.duty
    /\ Len(After.knee.pwm.duty) > 0

\* the last operation was a call of Leg::with_home_yaw
LegConstructed ==
    Len(leg_last) > 0 /\ LastMove.op = "with_home_yaw" /\ Len(LastMove.res) > 0

\* C13 (as claimed): Leg::with_home_yaw succeeds for every home yaw: it
\* never returns CouldntInit.
C13_WithHomeYawSucceeds == LegConstructed => MoveRes.out = "Ok"

\* ik_to of leg l to target t, every channel accepting its write
MoveTo(l, t) == Leg_ik_to(l, t[1], t[2], t[3], HwOk(TRUE, TRUE, TRUE))

\* the legs that the last with_home_yaw handed back
LegsBuilt == {leg[i] : i \in 1..Len(leg)}

\* C9 (as claimed): with_home_yaw(0.0) hands back a leg, and ik_to of that
\* leg on the target directly ahead, (8.0, 0.0, -5.47), has a local yaw
\* within two hundredths of a radian of 0 and does not fail with
\* CouldntMoveYaw.
C9_DeadAheadYawAccepted ==
    (LegConstructed /\ IsZero(LastMove.home)) =>
        /\ LegsBuilt # {}
        /\ \A l \in LegsBuilt :
              /\ F32Le(F32Abs(MoveTo(l, Target(800, 0, -547)).local_yaw), Hundredths(2))
              /\ MoveTo(l, Target(800, 0, -547)).out # "CouldntMoveYaw"

RawLocalYaw ==
    F32Sub(atan2f(F32Sub(LastMove.target[1], Before.yaw_servo_x),
                  F32Sub(LastMove.target[2], Before.yaw_servo_y)),
           LastMove.home)

RECURSIVE Turned(_, _)
\* x moved by n steps of 2 PI, up for a positive n and down for a negative
Turned(x, n) ==
    IF n = 0 THEN x
    ELSE IF n > 0 THEN F32Add(Turned(x, n - 1), TWO_PI)
    ELSE F32Sub(Turned(x, n + 1), TWO_PI)

\* y is x moved by whole steps of 2 PI
SameDirection(x, y) == \E n \in -5..5 : y = Turned(x, n)

\* with_home_yaw does not return: it stays in the loop of clamp_plus_minus_pi
ClampLoops == Pending("with_home_yaw") /\ leg_last[1].at = "clamp_plus_minus_pi"

\* C14 (as claimed): the wrapped local yaw lies in (-pi, pi], an input of
\* exactly pi stays pi and an input of exactly -pi becomes pi; the same for
\* the home yaw normalised by clamp_plus_minus_pi.
C14_WrapsIntoUpperClosed ==
    /\ (Moved /\ ~IsNaN(RawLocalYaw)) =>
          /\ F32Lt(F32Neg(PI), MoveRes.local_yaw) /\ F32Le(MoveRes.local_yaw, PI)
          /\ RawLocalYaw \in {PI, F32Neg(PI)} => MoveRes.local_yaw = PI
    /\ (LegConstructed /\ ~IsNaN(LastMove.home)) =>
          /\ F32Lt(F32Neg(PI), MoveRes.clamped) /\ F32Le(MoveRes.clamped, PI)
          /\ LastMove.home \in {PI, F32Neg(PI)} => MoveRes.clamped = PI

\* C14 (amended): the wrapped local yaw of a numeric input is the input
\* moved by whole steps of 2 pi into [-pi, pi): an input of exactly pi
\* becomes -pi and an input of exactly -pi stays -pi; the same for the home
\* yaw normalised by clamp_plus_minus_pi whenever with_home_yaw returns,
\* and it fails to return only for a home yaw that a step of 2 pi leaves
\* as it is.
C14_WrapsIntoLowerClosed ==
    /\ (Moved /\ ~IsNaN(RawLocalYaw)) =>
          /\ F32Le(F32Neg(PI), MoveRes.local_yaw) /\ F32Lt(MoveRes.local_yaw, PI)
          /\ SameDirection(RawLocalYaw, MoveRes.local_yaw)
          /\ RawLocalYaw \in {PI, F32Neg(PI)} => MoveRes.local_yaw = F32Neg(PI)
    /\ (LegConstructed /\ ~IsNaN(LastMove.home)) =>
          /\ F32Le(F32Neg(PI), MoveRes.clamped) /\ F32Lt(MoveRes.clamped, PI)
          /\ SameDirection(LastMove.home, MoveRes.clamped)
          /\ LastMove.home \in {PI, F32Neg(PI)} => MoveRes.clamped = F32Neg(PI)
    /\ ClampLoops =>
          LastMove.home \in {F32Sub(LastMove.home, TWO_PI), F32Add(LastMove.home, TWO_PI)}

\* a move whose local yaw was exactly pi before the wrap and -pi after it
C14_Witness == Moved /\ RawLocalYaw = PI /\ MoveRes.local_yaw = F32Neg(PI)

----------------------------------------------------------------------------
(***************************************************************************)
(* The drivers: main of src/src/main.rs, of src/src/bin/ik_test.rs and of  *)
(* src/src/bin/controller_test.rs.  main.rs, which computes its own        *)
(* divider and top and never reads the calibration of pwm.rs, is followed  *)
(* from its reading of the clock; the two test binaries from the return of *)
(* their second pwm::init_slice.  A duty cycle within the slice's top is   *)
(* accepted by the hardware.                                               *)
(***************************************************************************)
\* main.rs: const SERVO_PWM_PERIOD_MS: u16 = 20
SERVO_PWM_PERIOD_MS == 20

SERVO_PWM_FREQ_HZ == 1000 \div SERVO_PWM_PERIOD_MS

\* main.rs: const MAIN_LOOP_PERIOD_MS: u16 = SERVO_PWM_PERIOD_MS
MAIN_LOOP_PERIOD_MS == SERVO_PWM_PERIOD_MS

\* main.rs: const WAVE_PERIOD_MS: u16 = 1000
WAVE_PERIOD_MS == 1000

\* controller_test.rs: the u8 counter, and the count above which theta is 0.1
U8Limit == 256

ThetaThreshold == 192

\* a + b on u16: the sum modulo 2^16, and whether it left the type
U16Add(a, b) == [v |-> (a + b) % U16Limit, ovf |-> a + b >= U16Limit]

Driver(bin, pc) == [NoDriver EXCEPT !.bin = bin, !.pc = pc]

DriverSet == {Driver("main", "start"), Driver("ik_test", "start"), Driver("controller_test", "start")}

\* the clocks a driver is started at: main.rs also at one its check refuses
DriverClocks(bin) == IF bin = "main" THEN {125000000, FxU32IntLimit} ELSE {125000000}

\* main.rs: ik::Leg { length_hip_to_knee: 2.5, length_knee_to_foot: 5.6 }
MainLeg == IkLeg(F32Of(25, 10), F32Of(56, 10))

\* the slices and locks a binary has when the model takes it up: the test
\* binaries have configured two slices with pwm::init_slice, main.rs none
DriverBoard(bin, sliced) ==
    /\ slice = [t \in Tasks |-> IF bin # "main" /\ t <= 2 THEN sliced.val ELSE <<>>]
    /\ task = [t \in Tasks |-> IF bin # "main" /\ t <= 2 THEN [IdleTask EXCEPT !.stage = "sliced"] ELSE IdleTask]
    /\ \E w \in {IF bin = "main" THEN EmptyWorld ELSE sliced.w} :
          /\ locks = w.locks
          /\ runs = w.runs

InitLoop ==
    /\ driver \in DriverSet
    /\ clk_hz \in DriverClocks(driver.bin)
    /\ overflow_checks \in BOOLEAN
    /\ wrapped = FALSE
    /\ halted = FALSE
    /\ servo_written = FALSE
    /\ servo = <<>>
    /\ servo_last = <<>>
    /\ ik_leg = <<>>
    /\ ik_last = <<>>
    /\ leg = <<>>
    /\ leg_last = <<>>
    /\ \E sliced \in {init_slice(EmptyWorld)} : DriverBoard(driver.bin, sliced)

\* FixedU32::<U4>::checked_from_num(clk_hz), main.rs 65-72
main_clk_hz(w) ==
    IF Len(FxCheckedFromU32(clk_hz)) = 0
    THEN Diag(w, "Clock frequency too large", clk_hz)
    ELSE Ret(w, FxCheckedFromU32(clk_hz)[1])

\* (clk_hz / denominator) + FixedU32::<U4>::from_bits(1), main.rs 73-86
main_divider(r) ==
    IF r.out # "ok" THEN r
    ELSE IF Len(FxCheckedFromU32(SERVO_PWM_FREQ_HZ * (2 ^ DividerShift))) = 0
         THEN Diag(r.w, "Clock divider intermediate computation too large",
                   SERVO_PWM_FREQ_HZ * (2 ^ DividerShift))
         ELSE checked(r.w, FxAddBit(FxDiv(r.val[1], FxCheckedFromU32(SERVO_PWM_FREQ_HZ * (2 ^ DividerShift))[1])),
                      "attempt to add with overflow")

\* SERVO_PWM_FREQ_HZ as u32 * divider, main.rs 89
main_top_product(r) ==
    IF r.out # "ok" THEN r
    ELSE checked(r.w, U32MulFx(SERVO_PWM_FREQ_HZ, r.val[1]),
                 "attempt to multiply with overflow")

\* (clk_hz / denominator) - FixedU32::<U4>::ONE and top.floor().checked_to_num(),
\* main.rs 90-112: r holds the shifted denominator
main_top_divide(clk, r) ==
    IF r.out # "ok" THEN r
    ELSE IF Len(FxCheckedFromFx(r.val[1])) = 0
         THEN Diag(r.w, "Clock top intermediate computation too large", r.val[1])
         ELSE clock_top_convert(checked(r.w, FxSubOne(FxDiv(clk, r.val[1])),
                                        "attempt to subtract with overflow"))

\* main.rs 124-137: the pulse bounds and the slice's configuration
main_config(divider, top, pwm_min, pwm_ctr, w) ==
    Ret(w, [cfg |-> [divider |-> divider, top |-> top, phase_correct |-> TRUE,
                     enable |-> TRUE, compare_a |-> F32AsU16(pwm_ctr),
                     compare_b |-> F32AsU16(pwm_ctr)],
            center |-> pwm_ctr, range |-> F32Sub(pwm_ctr, pwm_min)])

main_pulse(divider, top, pwm_min, pwm_max, w) ==
    Only({main_config(divider, top, pwm_min, ctr, w) : ctr \in {F32Mul(Half, F32Add(pwm_min, pwm_max))}})

\* FixedU16::<U4>::lossless_try_from(divider), main.rs 113-122
main_narrow(rd, rt) ==
    IF rt.out # "ok" THEN rt
    ELSE IF Len(FxU16LosslessTryFrom(rd.val[1])) = 0
         THEN Diag(rt.w, "Clock divider too large", rd.val[1])
         ELSE main_pulse(FxU16LosslessTryFrom(rd.val[1])[1], rt.val[1],
                         F32Div(F32OfInt(rt.val[1]), Twenty),
                         F32Div(F32OfInt(rt.val[1]), Ten), rt.w)

main_top(rc, rd) ==
    Only({main_narrow(rd, rt) : rt \in {main_top_divide(rc.val[1], clock_top_shift(main_top_product(rd)))}})

main_divided(rc) == Only({main_top(rc, rd) : rd \in {main_divider(rc)}})

\* main.rs 63-139
main_setup(w) ==
    Only({IF rc.out # "ok" THEN rc ELSE main_divided(rc) : rc \in {main_clk_hz(w)}})

\* A driver's setup has returned r: the loop is entered, or a diagnostic
\* loop, or the program has panicked.
DriverSetUp(r, cal) ==
    /\ wrapped' = r.w.wrapped
    /\ halted' = (r.out = "panic")
    /\ driver' = [driver EXCEPT
                     !.pc = IF r.out = "ok" THEN "loop"
                            ELSE IF r.out = "diag" THEN "diag_log" ELSE "panicked",
                     !.out = IF r.out = "ok" THEN "" ELSE r.msg,
                     !.cal = cal]

\* main.rs from its start to the entry of its loop
MainStart ==
    /\ driver.bin = "main" /\ driver.pc = "start"
    /\ \E r \in {main_setup(World)} :
          /\ DriverSetUp(r, IF r.out = "ok" THEN <<[center |-> r.val[1].center, range |-> r.val[1].range]>> ELSE <<>>)
          /\ slice' = IF r.out = "ok" THEN [slice EXCEPT ![1] = <<r.val[1].cfg>>] ELSE slice
          /\ ik_leg' = IF r.out = "ok" THEN <<MainLeg>> ELSE ik_leg
    /\ UNCHANGED <<clk_hz, overflow_checks, locks, runs, task, servo_written>>
    /\ UNCHANGED <<servoVars, ik_last, legVars>>

\* a diagnostic loop of a driver: the log lines, then the ticker
DriverDiagLog ==
    /\ driver.pc = "diag_log"
    /\ driver' = [driver EXCEPT !.pc = "diag_wait"]
    /\ UNCHANGED <<pwmVars, servoVars, ikVars, legVars>>

DriverDiagTick ==
    /\ driver.pc = "diag_wait"
    /\ driver' = [driver EXCEPT !.pc = "diag_log"]
    /\ UNCHANGED <<pwmVars, servoVars, ikVars, legVars>>

\* with_home_yaw has returned r: the loop is entered, or the error arm
IkTestStarted(r) ==
    /\ locks' = r.w.locks
    /\ runs' = r.w.runs
    /\ leg' = r.leg
    /\ driver' = [driver EXCEPT !.pc = IF r.out = "Ok" THEN "loop" ELSE "error_log",
                                !.out = r.out]

\* ik_test's main: match Leg::with_home_yaw(0.0, pwm0, pwm1, pwm2).await
IkTestStart ==
    /\ driver.bin = "ik_test" /\ driver.pc = "start"
    /\ \E r \in {Leg_with_home_yaw(Zero, World)} : IkTestStarted(r)
    /\ UNCHANGED <<clk_hz, overflow_checks, wrapped, halted, task, slice, servo_written>>
    /\ UNCHANGED <<servoVars, ikVars, leg_last>>

\* the error arm: log::error!("Couldn't initialize a leg"), then the ticker
IkTestErrorLog ==
    /\ driver.pc = "error_log"
    /\ driver' = [driver EXCEPT !.pc = "error_wait"]
    /\ UNCHANGED <<pwmVars, servoVars, ikVars, legVars>>

IkTestErrorTick ==
    /\ driver.pc = "error_wait"
    /\ driver' = [driver EXCEPT !.pc = "error_log"]
    /\ UNCHANGED <<pwmVars, servoVars, ikVars, legVars>>

\* controller_test's main: pwm::pulse_center().await, then
\* pwm::pulse_range_plus_minus().await
controller_range(rc, rr) ==
    IF rr.out # "ok" THEN rr
    ELSE Ret(rr.w, [center |-> rc.val[1], range |-> rr.val[1]])

controller_calibration(w) ==
    Only({IF rc.out # "ok" THEN rc ELSE controller_range(rc, pulse_range_plus_minus(rc.w)) : rc \in {pulse_center(w)}})

ControllerStart ==
    /\ driver.bin = "controller_test" /\ driver.pc = "start"
    /\ \E r \in {controller_calibration(World)} :
          /\ locks' = r.w.locks
          /\ runs' = r.w.runs
          /\ DriverSetUp(r, IF r.out = "ok" THEN r.val ELSE <<>>)
    /\ UNCHANGED <<clk_hz, overflow_checks, task, slice, servo_written>>
    /\ UNCHANGED <<servoVars, ikVars, legVars>>

\* let theta = if counter > 192 { 0.1 } else { 0.0 }
ControllerTheta(counter) == IF counter > ThetaThreshold THEN F32Of(1, 10) ELSE Zero

\* one pass of the loop body of controller_test.rs, up to ticker.next().await:
\* pwm3.set_duty_cycle((pulse_center + pulse_range_plus_minus * theta) as _)
ControllerLoop ==
    /\ driver.bin = "controller_test" /\ driver.pc = "loop"
    /\ servo_written' = TRUE
    /\ driver' = [driver EXCEPT
                     !.pc = "await", !.attempts = 1,
                     !.duty = <<F32AsU16(F32Add(driver.cal[1].center, F32Mul(driver.cal[1].range, ControllerTheta(driver.counter))))>>]
    /\ UNCHANGED <<clk_hz, overflow_checks, locks, runs, wrapped, halted, task, slice>>
    /\ UNCHANGED <<servoVars, ikVars, legVars>>

\* after the ticker: counter = counter.wrapping_add(1)
ControllerTick ==
    /\ driver.bin = "controller_test" /\ driver.pc = "await"
    /\ driver' = [driver EXCEPT !.pc = "loop", !.attempts = 0,
                                !.counter = (@ + 1) % U8Limit]
    /\ UNCHANGED <<pwmVars, servoVars, ikVars, legVars>>

\* theta = (counter as f32) * const { 2.0 * PI / (WAVE_PERIOD_MS as f32) }
MainTheta(counter) ==
    F32Mul(F32OfInt(counter), F32Div(F32Mul(Two, PI), F32OfInt(WAVE_PERIOD_MS)))

\* inverse_kinematics has returned res for (x, y): when it is Ok,
\* pwm_hip.set_duty_cycle((pwm_ctr - pwm_rng * hip) as _) and
\* pwm_knee.set_duty_cycle((pwm_ctr + pwm_rng * knee) as _)
MainSolved(x, y, res) ==
    /\ ik_last' = <<[x |-> x, y |-> y, res |-> <<res>>]>>
    /\ servo_written' = (servo_written \/ res.out = "Ok")
    /\ driver' = [driver EXCEPT
                     !.pc = "await", !.out = res.out, !.attempts = 1,
                     !.duty = IF res.out = "Ok"
                              THEN <<F32AsU16(F32Sub(driver.cal[1].center, F32Mul(driver.cal[1].range, res.hip))),
                                     F32AsU16(F32Add(driver.cal[1].center, F32Mul(driver.cal[1].range, res.knee)))>>
                              ELSE @]

\* x = 2.75 + cosf(theta), y = -5.85 - sinf(theta)
MainTarget(theta) ==
    \E x \in {F32Add(F32Of(275, 100), cosf(theta))}, y \in {F32Sub(F32Of(-585, 100), sinf(theta))} :
        \E res \in {inverse_kinematics(ik_leg[1], x, y)} : MainSolved(x, y, res)

\* one pass of the loop body of main.rs, up to ticker.next().await
MainLoop ==
    /\ driver.bin = "main" /\ driver.pc = "loop"
    /\ \E theta \in {MainTheta(driver.counter)} : MainTarget(theta)
    /\ UNCHANGED <<clk_hz, overflow_checks, locks, runs, wrapped, halted, task, slice>>
    /\ UNCHANGED <<servoVars, ik_leg, legVars>>

\* after the ticker: counter += MAIN_LOOP_PERIOD_MS; if counter >=
\* WAVE_PERIOD_MS { counter -= WAVE_PERIOD_MS }
MainTick ==
    /\ driver.bin = "main" /\ driver.pc = "await"
    /\ halted' = (U16Add(driver.counter, MAIN_LOOP_PERIOD_MS).ovf /\ overflow_checks)
    /\ wrapped' = (wrapped \/ U16Add(driver.counter, MAIN_LOOP_PERIOD_MS).ovf)
    /\ driver' = [driver EXCEPT
                     !.pc = IF halted' THEN "panicked" ELSE "loop",
                     !.attempts = 0,
                     !.counter =
                         IF U16Add(@, MAIN_LOOP_PERIOD_MS).v >= WAVE_PERIOD_MS
                         THEN U16Add(@, MAIN_LOOP_PERIOD_MS).v - WAVE_PERIOD_MS
                         ELSE U16Add(@, MAIN_LOOP_PERIOD_MS).v]
    /\ UNCHANGED <<clk_hz, overflow_checks, locks, runs, task, slice, servo_written>>
    /\ UNCHANGED <<servoVars, ikVars, legVars>>

NextLoop ==
    \/ MainStart
    \/ DriverDiagLog
    \/ DriverDiagTick
    \/ MainLoop
    \/ MainTick
    \/ IkTestStart
    \/ IkTestErrorLog
    \/ IkTestErrorTick
    \/ ControllerStart
    \/ ControllerLoop
    \/ ControllerTick

SpecLoop == InitLoop /\ [][NextLoop]_vars

(***************************************************************************)
(* Properties of the drivers.                                              *)
(***************************************************************************)
\* C16 (as claimed): at the board's clock of 125 MHz a driver, once started,
\* is always in its control loop: every pass makes one attempt, advances the
\* tick counter and goes on to the next tick; no pass crashes or halts the
\* loop, the increment of the counter included, after however many ticks.
C16_EveryTickCompletes ==
    [][clk_hz = 125000000 =>
          /\ ~halted'
          /\ driver'.pc \in {"loop", "await"}
          /\ driver.pc = "loop" => (driver'.pc = "await" /\ driver'.attempts = 1)
          /\ driver.pc = "await" => driver'.pc = "loop"]_vars
============================================================================
